---- MODULE Spec2Model ----
(***************************************************************************)
(* The RDF pipeline of src/MD/RDF.py as a state machine: main() reading a  *)
(* LAMMPS dump (read_lammps_all_frames), selecting the frame window,       *)
(* accumulating the total and per-pair distance histograms, averaging,     *)
(* normalising to g(r), smoothing and writing the table and the figure.    *)
(* The script may be run again on the same file: the table an earlier run  *)
(* wrote is still on disk when the next run starts.  With --fmt xdatcar    *)
(* the frames come from read_xdatcar instead.                              *)
(*                                                                         *)
(* The sections after the RDF pipeline model other scripts of the toolbox, *)
(* each with an initial condition and a next-state relation of its own:    *)
(* src/Universal/Substitute-POSCAR.py, the dispatcher src/Leo.py, the dump *)
(* readers of src/MD/PDOS.py and src/Universal/LAMMPS2EXYZ.py, and the     *)
(* train/test split of src/NEP/Exyz-random-select.py.                      *)
(*                                                                         *)
(* Numbers.  Coordinates, box bounds and the cutoff are integers (a fixed  *)
(* length unit), so every squared distance is an exact integer and a       *)
(* distance is compared with a bin edge through its square.  Histogram     *)
(* values are exact rationals <<n, d>>; a g(r) value is the rational       *)
(* coefficient of 1/pi: the rounding of these sums and quotients is not    *)
(* modelled, nor is the "%.6f" text of a table field (a field is its exact *)
(* value).  The weights of the gaussian kernel are exp() rounded to        *)
(* hundredths.  The products that are cut to whole numbers, a window bound *)
(* times the number of frames and the split ratio times the number of      *)
(* frames, are computed as doubles.                                        *)
(***************************************************************************)
EXTENDS Integers, Sequences, FiniteSets, TLC

VARIABLES
    lines,        \* the input file, a sequence of lines (f.readlines())
    args,         \* the parsed command line (argparse namespace)
    later,        \* the command lines of the runs still to come on this file
    prev,         \* the runs completed so far: <<command line, table written>>
    pc,           \* position of main(): read, loaded, mapped, window, accum,
                  \* averaged, normalized, smoothed, written, done, failed
    err,          \* the exception that ended the run ("" while none)
    i,            \* read_lammps_all_frames: index of the current line (0-based)
    frames,       \* frames parsed so far; after the read, main's frames
    tmap,         \* the type-map dictionary: a function from types to symbols
    f0, f1,       \* window indices
    use,          \* frames[f0:f1]
    all_types,    \* sorted species types of use[0]
    total_hist,   \* total histogram, one rational per bin
    partial_hist, \* (ta, tb) -> histogram
    k,            \* number of frames of use accumulated so far
    g_total,      \* total g(r)
    partial_rdf,  \* (ta, tb) -> g(r)
    txt,          \* the text table written (<<>> while none)
    fig,          \* the figure written: its panel titles (<<>> while none)
    \* The other scripts of the toolbox have the variables of their own
    \* source below; lines, args, pc, err, i and frames above are, for each of
    \* them, the variables of those names in the script that is running.
    atom_species_new, \* Substitute-POSCAR.py: per-atom species after substitution
    new_lines,        \* Substitute-POSCAR.py: the lines written to poscar_out
    tools,            \* Leo.py: the entries of TOOLS in registration order
    parser,           \* Leo.py: the sub-commands registered, with their defaults
    argv,             \* Leo.py: sys.argv[1:]
    cmd,              \* Leo.py: what run_script copied and ran (<<>> while none)
    frames_vel,       \* PDOS.py: the velocity frames read so far
    ids_ref,          \* PDOS.py: sorted ids of the first frame (<<>> for None)
    train_frames,     \* Exyz-random-select.py: frames[:num_train]
    test_frames,      \* Exyz-random-select.py: frames[num_train:]
    train_xyz,        \* Exyz-random-select.py: the strings written to the train file
    test_xyz,         \* Exyz-random-select.py: the strings written to the test file
    shuffle_i,        \* Exyz-random-select.py: the index random.shuffle is at
    xyz_frames        \* the frames the input xyz file holds, in file order (the
                      \* script never assigns it)

\* the variables only src/MD/RDF.py has
rdf_vars == <<later, prev, tmap, f0, f1, use, all_types, total_hist,
              partial_hist, k, g_total, partial_rdf, txt, fig>>

sub_vars == <<atom_species_new, new_lines>>

leo_vars == <<tools, parser, argv, cmd>>

pdos_vars == <<frames_vel, ids_ref>>

split_vars == <<train_frames, test_frames, train_xyz, test_xyz, shuffle_i, xyz_frames>>

\* the variables no step of src/MD/RDF.py touches
other_vars == <<sub_vars, leo_vars, pdos_vars, split_vars>>

vars == <<lines, args, later, prev, pc, err, i, frames, tmap, f0, f1, use,
          all_types, total_hist, partial_hist, k, g_total, partial_rdf, txt, fig,
          other_vars>>

\* a script that is not running holds nothing
RdfIdle ==
    /\ later = <<>>
    /\ prev = <<>>
    /\ tmap = <<>>
    /\ f0 = 0
    /\ f1 = 0
    /\ use = <<>>
    /\ all_types = <<>>
    /\ total_hist = <<>>
    /\ partial_hist = <<>>
    /\ k = 0
    /\ g_total = <<>>
    /\ partial_rdf = <<>>
    /\ txt = <<>>
    /\ fig = <<>>

SubIdle == atom_species_new = <<>> /\ new_lines = <<>>

LeoIdle == tools = <<>> /\ parser = <<>> /\ argv = <<>> /\ cmd = <<>>

PdosIdle == frames_vel = <<>> /\ ids_ref = <<>>

SplitIdle ==
    /\ train_frames = <<>>
    /\ test_frames = <<>>
    /\ train_xyz = <<>>
    /\ test_xyz = <<>>
    /\ shuffle_i = 0
    /\ xyz_frames = <<>>

(***************************************************************************)
(* Arithmetic helpers                                                      *)
(***************************************************************************)
Abs(x) == IF x < 0 THEN -x ELSE x

Min(a, b) == IF a < b THEN a ELSE b

Max(a, b) == IF a > b THEN a ELSE b

RECURSIVE Gcd(_, _)
Gcd(a, b) == IF b = 0 THEN a ELSE Gcd(b, a % b)

\* The rational n/d (d # 0) in lowest terms with a positive denominator.
Rat(n, d) ==
    LET g == Gcd(Abs(n), Abs(d))
        s == IF d < 0 THEN -1 ELSE 1
    IN  <<(s * n) \div g, (s * d) \div g>>

RatAdd(a, b) == Rat(a[1] * b[2] + b[1] * a[2], a[2] * b[2])

RatDivInt(a, n) == Rat(a[1], a[2] * n)

Zero == <<0, 1>>

\* (the quotient rounded down, as np.floor would)
RoundHalfEvenFloor(n, m) == n \div m

\* np.round of the quotient n/m (m > 0): nearest integer, ties to the even one.
RoundHalfEven(n, m) ==
    LET q == n \div m
        r == n - q * m
    IN  IF 2 * r < m THEN q
        ELSE IF 2 * r > m THEN q + 1
        ELSE IF q % 2 = 0 THEN q ELSE q + 1

(***************************************************************************)
(* Lines of a dump file.  A header line carries its section name (and, for *)
(* ITEM: ATOMS, the column names); a data line carries its numeric tokens; *)
(* hdr = "TEXT" is any other non-numeric line.                             *)
(***************************************************************************)
Hdr(h) == [hdr |-> h, cols |-> <<>>, toks |-> <<>>]

AtomsHdr(cols) == [hdr |-> "ATOMS", cols |-> cols, toks |-> <<>>]

Data(toks) == [hdr |-> "", cols |-> <<>>, toks |-> toks]

\* lines[j] with Python's 0-based index
At(ls, j) == ls[j + 1]

\* len(line.split())
NParts(l) ==
    CASE l.hdr = "" -> Len(l.toks)
      [] l.hdr = "TIMESTEP" -> 2
      [] l.hdr = "NUMBER" -> 4
      [] l.hdr = "BOX" -> 6
      [] l.hdr = "ATOMS" -> 2 + Len(l.cols)
      [] OTHER -> 1

\* int(line.strip()) succeeds
IsIntLine(l) == l.hdr = "" /\ Len(l.toks) = 1

\* col = {h: k for k, h in enumerate(header)}: the last column of that name
\* (the columns at the places "id type x y z" gives them)
ColByPlace(cols, name) ==
    CASE name = "type" -> 2
      [] name = "x" -> 3
      [] name = "y" -> 4
      [] name = "z" -> 5
      [] OTHER -> 1

HasCol(cols, name) == \E c \in 1..Len(cols) : cols[c] = name

Col(cols, name) ==
    CHOOSE c \in 1..Len(cols) :
        cols[c] = name /\ \A c2 \in (c + 1)..Len(cols) : cols[c2] # name

(***************************************************************************)
(* read_lammps_all_frames: one block, starting at a line i that is an      *)
(* ITEM: TIMESTEP header.  BlockErr is the exception the block's parse     *)
(* raises ("" when it raises none), in the order the code meets them.      *)
(***************************************************************************)
\* one of the three box lines: lo hi, or lo hi tilt
BoxLineErr(l) ==
    IF NParts(l) \in {2, 3}
    THEN IF l.hdr = "" THEN "" ELSE "ValueError"
    ELSE "RuntimeError"

\* one atom row, read through the column lookup
RowErr(l, cols) ==
    LET numeric == l.hdr = ""
        n == NParts(l)
        PosErr(c) ==
            IF ~HasCol(cols, c) THEN "KeyError"
            ELSE IF n < Col(cols, c) THEN "IndexError"
            ELSE IF ~numeric THEN "ValueError"
            ELSE ""
    IN  IF n < Col(cols, "type") THEN "IndexError"
        ELSE IF ~numeric THEN "ValueError"
        ELSE IF PosErr("x") # "" THEN PosErr("x")
        ELSE IF PosErr("y") # "" THEN PosErr("y")
        ELSE PosErr("z")

RECURSIVE RowsErr(_, _, _, _, _)
RowsErr(ls, i0, natoms, cols, r) ==
    IF r >= natoms THEN ""
    ELSE IF i0 + 9 + r >= Len(ls) THEN "IndexError"
    ELSE IF RowErr(At(ls, i0 + 9 + r), cols) # ""
         THEN RowErr(At(ls, i0 + 9 + r), cols)
    ELSE RowsErr(ls, i0, natoms, cols, r + 1)

RECURSIVE BoxErr(_, _, _)
BoxErr(ls, i0, j) ==
    IF j >= 3 THEN ""
    ELSE IF i0 + 5 + j >= Len(ls) THEN "IndexError"
    ELSE IF BoxLineErr(At(ls, i0 + 5 + j)) # ""
         THEN BoxLineErr(At(ls, i0 + 5 + j))
    ELSE BoxErr(ls, i0, j + 1)

\* (the atom-count header taken on trust)
NumberHeaderUnchecked(ls, i0) == FALSE

\* the header checks of lines 114-115, 119-120, 144-145 and 148-149
MissingNumberHeader(ls, i0) == At(ls, i0 + 2).hdr # "NUMBER"

MissingBoxHeader(ls, i0) == At(ls, i0 + 4).hdr # "BOX"

MissingAtomsHeader(ls, i0) == At(ls, i0 + 8).hdr # "ATOMS"

MissingTypeColumn(ls, i0) == ~HasCol(At(ls, i0 + 8).cols, "type")

BlockErr(ls, i0) ==
    LET n == Len(ls)
        natoms == At(ls, i0 + 3).toks[1]
        cols == At(ls, i0 + 8).cols
    IN  IF i0 + 1 >= n THEN "IndexError"
        ELSE IF ~IsIntLine(At(ls, i0 + 1)) THEN "ValueError"
        ELSE IF i0 + 2 >= n THEN "IndexError"
        ELSE IF MissingNumberHeader(ls, i0) THEN "RuntimeError"
        ELSE IF i0 + 3 >= n THEN "IndexError"
        ELSE IF ~IsIntLine(At(ls, i0 + 3)) THEN "ValueError"
        ELSE IF i0 + 4 >= n THEN "IndexError"
        ELSE IF MissingBoxHeader(ls, i0) THEN "RuntimeError"
        ELSE IF BoxErr(ls, i0, 0) # "" THEN BoxErr(ls, i0, 0)
        ELSE IF i0 + 8 >= n THEN "IndexError"
        ELSE IF MissingAtomsHeader(ls, i0) THEN "RuntimeError"
        ELSE IF MissingTypeColumn(ls, i0) THEN "RuntimeError"
        ELSE IF RowsErr(ls, i0, natoms, cols, 0) # ""
             THEN RowsErr(ls, i0, natoms, cols, 0)
        ELSE IF natoms <= 0 THEN "IndexError"   \* X[:, 0] of an empty array
        ELSE ""

\* (a box length that takes the tilt factor of a three-field line in)
BoxLengthWithTilt(l) ==
    l.toks[2] - l.toks[1] + (IF Len(l.toks) = 3 THEN l.toks[3] ELSE 0)

\* lines 137-139: hi - lo of a box line, whatever its third field
BoxLength(l) == l.toks[2] - l.toks[1]

\* The frame (X, T, cell, vol) of a block that parses: positions shifted to the
\* box origin, the cell the diagonal of the three box lengths (tilt ignored).
BlockFrame(ls, i0) ==
    LET natoms == At(ls, i0 + 3).toks[1]
        cols == At(ls, i0 + 8).cols
        lo(j) == At(ls, i0 + 5 + j).toks[1]
        row(r) == At(ls, i0 + 9 + r).toks
        cell == <<BoxLength(At(ls, i0 + 5)), BoxLength(At(ls, i0 + 6)),
                  BoxLength(At(ls, i0 + 7))>>
    IN  [pos  |-> [r \in 1..natoms |->
                      <<row(r - 1)[Col(cols, "x")] - lo(0),
                        row(r - 1)[Col(cols, "y")] - lo(1),
                        row(r - 1)[Col(cols, "z")] - lo(2)>>],
         typ  |-> [r \in 1..natoms |-> row(r - 1)[Col(cols, "type")]],
         cell |-> cell,
         vol  |-> Abs(cell[1] * cell[2] * cell[3])]

\* i += 9 + natoms
BlockNext(ls, i0) == i0 + 9 + At(ls, i0 + 3).toks[1]

(***************************************************************************)
(* Distances and histograms                                                *)
(***************************************************************************)
\* (a wrap of the separations beyond +1/2 only)
minimum_image_one_sided(n, m) ==
    IF m > 0 THEN (IF 2 * n > m THEN n - m * RoundHalfEven(n, m) ELSE n)
    ELSE n - m * RoundHalfEven(-n, -m)

\* minimum_image(dr) = dr - np.round(dr) for the fraction dr = n/m: the
\* numerator of the wrapped fraction over the same m (m # 0).
minimum_image(n, m) ==
    IF m > 0 THEN n - m * RoundHalfEven(n, m)
    ELSE n - m * RoundHalfEven(-n, -m)

\* One entry of d in distances_pbc / partial_dist, squared: cart_to_frac of
\* both positions, their difference wrapped, df @ lattice, the norm.
PairDist2(cell, p, q) ==
    LET w(c) == minimum_image(p[c] - q[c], cell[c])
    IN  w(1) * w(1) + w(2) * w(2) + w(3) * w(3)

\* distances_pbc(pos, lattice): the full n x n matrix, as the index pairs
AllPairs(fr) == (DOMAIN fr.pos) \X (DOMAIN fr.pos)

\* pos[types == t]
OfType(fr, t) == {a \in DOMAIN fr.typ : fr.typ[a] = t}

\* (an empty subset replaced by all the atoms)
PartialDistAll(fr, ta, tb) ==
    LET A == IF OfType(fr, ta) = {} \/ OfType(fr, tb) = {}
             THEN DOMAIN fr.pos ELSE OfType(fr, ta)
        B == IF OfType(fr, ta) = {} \/ OfType(fr, tb) = {}
             THEN DOMAIN fr.pos ELSE OfType(fr, tb)
    IN  {pr \in A \X B : PairDist2(fr.cell, fr.pos[pr[1]], fr.pos[pr[2]]) > 0}

\* (every pair of two atoms counted once, whichever the two types)
PartialDistOncePerPair(fr, ta, tb) ==
    IF OfType(fr, ta) = {} \/ OfType(fr, tb) = {} THEN {}
    ELSE {pr \in OfType(fr, ta) \X OfType(fr, tb) :
             /\ PairDist2(fr.cell, fr.pos[pr[1]], fr.pos[pr[2]]) > 0
             /\ (ta = tb => pr[1] < pr[2])}

\* partial_dist: the index pairs whose distance it returns (d[d > 0]); none
\* when the frame has no atom of ta or none of tb (lines 187-188)
partial_dist(fr, ta, tb) ==
    IF OfType(fr, ta) = {} \/ OfType(fr, tb) = {} THEN {}
    ELSE {pr \in OfType(fr, ta) \X OfType(fr, tb) :
             PairDist2(fr.cell, fr.pos[pr[1]], fr.pos[pr[2]]) > 0}

\* (the mask with d >= 0)
InRangeClosedLow(d2, cutoff) == d2 >= 0 /\ cutoff > 0 /\ d2 < cutoff * cutoff

\* (the comparison d <= cutoff)
UpToCutoff(d2, cutoff) == cutoff > 0 /\ d2 <= cutoff * cutoff

\* d < args.cutoff, for a distance d >= 0 given by its square
BelowCutoff(d2, cutoff) == cutoff > 0 /\ d2 < cutoff * cutoff

\* the mask (d > 0) & (d < args.cutoff) of lines 304 and 316
InRange(d2, cutoff) == d2 > 0 /\ BelowCutoff(d2, cutoff)

\* np.histogram over edges = np.linspace(0, cutoff, bins + 1): the bin (1-based)
\* of a distance, edge j being j*cutoff/bins; every bin is half-open but the
\* last, which holds its upper edge too
InBin(d2, b, cutoff, bins) ==
    /\ (b - 1) * (b - 1) * cutoff * cutoff <= d2 * bins * bins
    /\ \/ d2 * bins * bins < b * b * cutoff * cutoff
       \/ b = bins /\ d2 * bins * bins = b * b * cutoff * cutoff

\* h of np.histogram(d, bins=edges) for the distances of the index pairs prs
Histogram(fr, prs, cutoff, bins) ==
    [b \in 1..bins |->
        Cardinality({pr \in prs :
            LET d2 == PairDist2(fr.cell, fr.pos[pr[1]], fr.pos[pr[2]])
            IN  InRange(d2, cutoff) /\ InBin(d2, b, cutoff, bins)})]

\* (the frame's counts stored in place of the sum)
HistAssign(hist, h) == [b \in DOMAIN hist |-> <<h[b], 1>>]

\* hist += h
HistAdd(hist, h) == [b \in DOMAIN hist |-> RatAdd(hist[b], <<h[b], 1>>)]

\* (the sum left undivided)
HistUndivided(hist, nf) == hist

\* hist /= nf
HistDiv(hist, nf) == [b \in DOMAIN hist |-> RatDivInt(hist[b], nf)]

(***************************************************************************)
(* Double arithmetic.  A fraction given on the command line is a double:   *)
(* float(), the product with a whole number and int() are computed on the  *)
(* binary digits, rounding to nearest-even at 53 digits as the hardware    *)
(* does (src/MD/RDF.py lines 240 and 272-273, src/NEP/Exyz-random-select.py*)
(* lines 24 and 62).                                                       *)
(***************************************************************************)
Zeros(n) == [j \in 1..n |-> 0]

\* the digits of a double's significand
Mantissa == 53

\* the binary digits of a limb of the long arithmetic
LimbBits == 18

LimbBase == 2 ^ LimbBits

\* the first n digits in base LimbBase of rem/q behind the point, then what is
\* left of the division
RECURSIVE FractionLimbs(_, _, _)
FractionLimbs(rem, q, n) ==
    IF n = 0 THEN <<rem>>
    ELSE <<(rem * LimbBase) \div q>> \o FractionLimbs((rem * LimbBase) % q, q, n - 1)

\* the binary digits of a numeral in base LimbBase
BitsOfLimbs(ls) ==
    [j \in 1..(LimbBits * Len(ls)) |->
        (ls[(j - 1) \div LimbBits + 1]
            \div (2 ^ (LimbBits - 1 - ((j - 1) % LimbBits)))) % 2]

\* the value of a binary numeral of a few digits
RECURSIVE ValueOf(_)
ValueOf(bits) ==
    IF bits = <<>> THEN 0
    ELSE 2 * ValueOf(SubSeq(bits, 1, Len(bits) - 1)) + bits[Len(bits)]

\* the numeral in base LimbBase of a binary numeral
LimbsOfBits(bits) ==
    LET n == (Len(bits) + LimbBits - 1) \div LimbBits
        padded == Zeros(n * LimbBits - Len(bits)) \o bits
    IN  [m \in 1..n |-> ValueOf(SubSeq(padded, (m - 1) * LimbBits + 1, m * LimbBits))]

\* a binary numeral without its leading zeros
Significant(bits) ==
    IF \A j \in DOMAIN bits : bits[j] = 0 THEN <<>>
    ELSE SubSeq(bits, CHOOSE j \in DOMAIN bits :
                          bits[j] = 1 /\ \A j2 \in 1..(j - 1) : bits[j2] = 0,
                Len(bits))

\* a binary numeral plus one
PlusOne(bits) ==
    IF \A j \in DOMAIN bits : bits[j] = 1 THEN <<1>> \o Zeros(Len(bits))
    ELSE LET z == CHOOSE j \in DOMAIN bits :
                      bits[j] = 0 /\ \A j2 \in (j + 1)..Len(bits) : bits[j2] = 1
         IN  SubSeq(bits, 1, z - 1) \o <<1>> \o Zeros(Len(bits) - z)

\* round to nearest, ties to even, at Mantissa significant digits; the digits
\* rounded away are left as zeros (bits starts with 1)
RoundDouble(bits) ==
    IF Len(bits) <= Mantissa THEN bits
    ELSE LET keep == SubSeq(bits, 1, Mantissa)
             rest == SubSeq(bits, Mantissa + 1, Len(bits))
             up == /\ rest[1] = 1
                   /\ \/ keep[Mantissa] = 1
                      \/ \E j \in 2..Len(rest) : rest[j] = 1
         IN  (IF up THEN PlusOne(keep) ELSE keep) \o Zeros(Len(rest))

\* float() of the decimal p/q with 0 < p < q: the double nearest to p/q, as its
\* binary digits and the number of them behind the point
FloatOf(p, q) ==
    LET ls == FractionLimbs(p, q, 4)
        digits == BitsOfLimbs(SubSeq(ls, 1, 4)) \o <<IF ls[5] = 0 THEN 0 ELSE 1>>
    IN  [bits |-> RoundDouble(Significant(digits)), frac |-> Len(digits)]

\* a numeral in base LimbBase times n, from the last digit with a carry
RECURSIVE TimesCarry(_, _, _)
TimesCarry(ls, n, carry) ==
    IF ls = <<>> THEN (IF carry = 0 THEN <<>> ELSE <<carry>>)
    ELSE LET t == ls[Len(ls)] * n + carry
         IN  Append(TimesCarry(SubSeq(ls, 1, Len(ls) - 1), n, t \div LimbBase),
                    t % LimbBase)

\* n * f in double arithmetic, n a small whole number
FloatTimes(n, f) ==
    [bits |-> RoundDouble(Significant(BitsOfLimbs(TimesCarry(LimbsOfBits(f.bits), n, 0)))),
     frac |-> f.frac]

\* int(f) for f >= 0
IntOf(f) ==
    IF Len(f.bits) <= f.frac THEN 0
    ELSE ValueOf(SubSeq(f.bits, 1, Len(f.bits) - f.frac))

\* int(f * n) for the double f of the decimal p/q, 0 <= p <= q
IntOfProduct(p, q, n) ==
    IF p = 0 THEN 0
    ELSE IF p = q THEN n
    ELSE IntOf(FloatTimes(n, FloatOf(p, q)))

(***************************************************************************)
(* Window, species types, normalisation                                    *)
(***************************************************************************)
\* --avg-frac values are multiples of 1/FracDen
FracDen == 10

\* frames[a:b] for 0 <= a
PySlice(s, a, b) == [j \in 1..Max(0, Min(b, Len(s)) - a) |-> s[a + j]]

\* lines 272-275
WindowStart(frac, n) == IntOfProduct(frac[1], FracDen, n)

WindowEnd(frac, n) ==
    IF IntOfProduct(frac[2], FracDen, n) <= WindowStart(frac, n)
    THEN WindowStart(frac, n) + 1
    ELSE IntOfProduct(frac[2], FracDen, n)

Range(s) == {s[j] : j \in DOMAIN s}

RECURSIVE SortedSeq(_)
SortedSeq(S) ==
    IF S = {} THEN <<>>
    ELSE LET m == CHOOSE x \in S : \A y \in S : x <= y
         IN  <<m>> \o SortedSeq(S \ {m})

\* (the types of every frame of the window)
TypesOfAllFrames(u) == SortedSeq(UNION {Range(u[j].typ) : j \in DOMAIN u})

\* lines 291-292: sorted(np.unique(use[0][1]))
TypesOfFirst(u) == SortedSeq(Range(u[1].typ))

\* the keys of partial_hist (lines 297-298)
PairKeys(types) ==
    {<<types[a], types[b]>> : a, b \in DOMAIN types} \cap
    {pr \in Range(types) \X Range(types) : pr[2] >= pr[1]}

\* (the loops nested the other way round: tb outside, ta inside)
RECURSIVE PairSeqColumnMajor(_, _, _)
PairSeqColumnMajor(types, a, b) ==
    IF b > Len(types) THEN <<>>
    ELSE IF a > Len(types) THEN PairSeqColumnMajor(types, 1, b + 1)
    ELSE IF types[b] < types[a] THEN PairSeqColumnMajor(types, a + 1, b)
    ELSE <<<<types[a], types[b]>>>> \o PairSeqColumnMajor(types, a + 1, b)

\* the loop order "for ta in all_types: for tb in all_types: if tb < ta: continue"
RECURSIVE PairSeq(_, _, _)
PairSeq(types, a, b) ==
    IF a > Len(types) THEN <<>>
    ELSE IF b > Len(types) THEN PairSeq(types, a + 1, 1)
    ELSE IF types[b] < types[a] THEN PairSeq(types, a, b + 1)
    ELSE <<<<types[a], types[b]>>>> \o PairSeq(types, a, b + 1)

CountOf(fr, t) == Cardinality(OfType(fr, t))

NaN == <<0, 0>>

Inf == <<1, 0>>

\* rdf_normalize, bin b: counts / (Na * (Nb / volume) * 4 pi r^2 dr) with
\* r = (2b-1) cutoff / (2 bins), dr = cutoff / bins; the value's coefficient of
\* 1/pi.  A zero denominator gives numpy's nan (0/0) or inf.
NormalizeBin(c, b, cutoff, bins, Na, Nb, volume) ==
    LET den == c[2] * Na * Nb * (2 * b - 1) * (2 * b - 1) * cutoff * cutoff * cutoff
        num == c[1] * volume * bins * bins * bins
    IN  IF den = 0 THEN (IF c[1] = 0 THEN NaN ELSE Inf) ELSE Rat(num, den)

rdf_normalize(counts, cutoff, bins, Na, Nb, volume) ==
    [b \in DOMAIN counts |-> NormalizeBin(counts[b], b, cutoff, bins, Na, Nb, volume)]

\* (the lower edge of the bin)
BinLowerEdge(b, cutoff, bins) == Rat((b - 1) * cutoff, bins)

\* bin centre r[b] = 0.5 * (edges[b-1] + edges[b])
BinCentre(b, cutoff, bins) == Rat((2 * b - 1) * cutoff, 2 * bins)

\* a product or a sum with a nan operand is nan; common factors are divided
\* out before multiplying
RatMul(a, b) ==
    IF a[2] = 0 \/ b[2] = 0 THEN NaN
    ELSE LET g1 == Gcd(Abs(a[1]), b[2])
             g2 == Gcd(Abs(b[1]), a[2])
         IN  Rat((a[1] \div g1) * (b[1] \div g2), (a[2] \div g2) * (b[2] \div g1))

RatPlus(a, b) ==
    IF a[2] = 0 \/ b[2] = 0 THEN NaN
    ELSE LET g == Gcd(a[2], b[2])
         IN  Rat(a[1] * (b[2] \div g) + b[1] * (a[2] \div g), (a[2] \div g) * b[2])

\* the sum of f[lo], ..., f[hi]
RECURSIVE RatSum(_, _, _)
RatSum(f, lo, hi) == IF hi < lo THEN Zero ELSE RatPlus(RatSum(f, lo, hi - 1), f[hi])

\* np.convolve(a, v, "same") for non-empty a and v: max(M, N) values, the full
\* convolution from its entry (min(M, N) - 1) // 2 on (0-based); entry m of the
\* full convolution is the sum of a[j] * v[m - j] over the j both arrays hold
Convolve(a, v) ==
    LET start == (Min(Len(a), Len(v)) - 1) \div 2
    IN  [t \in 1..Max(Len(a), Len(v)) |->
            LET lo == Max(1, t + start + 1 - Len(v))
                hi == Min(Len(a), t + start)
            IN  RatSum([j \in lo..hi |-> RatMul(a[j], v[t + start - j + 1])], lo, hi)]

\* --sigma is held as s = 3 * sigma, an integer, so that hw = int(3 * sigma) = s.
\* exp(-0.5 * (x / sigma)^2) in hundredths, rounded, for |x| <= s <= 3; 0/0
\* is nan
GaussWeight(x, s) ==
    IF s = 0 THEN NaN
    ELSE IF x = 0 THEN <<1, 1>>
    ELSE IF Abs(x) = s THEN <<1, 100>>                 \* exp(-4.5)
    ELSE IF s = 2 THEN <<32, 100>>                     \* exp(-1.125)
    ELSE IF Abs(x) = 1 THEN <<61, 100>>                \* exp(-0.5)
    ELSE <<14, 100>>                                   \* exp(-2)

\* k = np.ones(w) / w (line 219)
MovingKernel(w) == [j \in 1..w |-> Rat(1, w)]

\* lines 222-225: xs = -hw..hw, k = exp(...), k /= k.sum()
GaussKernel(s) ==
    LET hw == s
        raw == [j \in 1..(2 * hw + 1) |-> GaussWeight(j - hw - 1, s)]
        total == RatSum(raw, 1, Len(raw))
    IN  [j \in DOMAIN raw |->
            IF total[2] = 0 \/ raw[j][2] = 0 THEN NaN
            ELSE RatMul(raw[j], <<total[2], total[1]>>)]

\* what smooth raises: np.ones of a negative width, np.convolve of an empty
\* array or an empty kernel
SmoothErr(y, a) ==
    IF a.smooth = "moving"
    THEN (IF a.window < 0 \/ a.window = 0 \/ Len(y) = 0 THEN "ValueError" ELSE "")
    ELSE IF a.smooth = "gaussian"
    THEN (IF a.sigma < 0 \/ Len(y) = 0 THEN "ValueError" ELSE "")
    ELSE ""

\* smooth(y, mode, w, sigma) with the command line's mode, window and sigma
smooth(y, a) ==
    IF a.smooth = "moving" THEN Convolve(y, MovingKernel(a.window))
    ELSE IF a.smooth = "gaussian" THEN Convolve(y, GaussKernel(a.sigma))
    ELSE y

(***************************************************************************)
(* --type-map: the argument split at its commas, each entry split at its    *)
(* colons: n the number of parts, num whether the first part is an integer *)
(* literal, k that integer, v the second part.  No argument, or an empty   *)
(* one, is the empty sequence.                                             *)
(***************************************************************************)
Entry(t, sym) == [n |-> 2, num |-> TRUE, k |-> t, v |-> sym]

\* lines 264-266: "k, v = kv.split(':')" and int(k)
TypeMapErr(tm) ==
    IF \E j \in DOMAIN tm : tm[j].n # 2 \/ ~tm[j].num THEN "ValueError" ELSE ""

\* tmap[int(k)] = v, a later entry replacing an earlier one of the same key
ParseTypeMap(tm) ==
    [t \in {tm[j].k : j \in DOMAIN tm} |->
        tm[CHOOSE j \in DOMAIN tm :
               tm[j].k = t /\ \A j2 \in DOMAIN tm : tm[j2].k = t => j2 <= j].v]

\* f"{tmap.get(t, t)}"
Label(tm, t) == IF t \in DOMAIN tm THEN tm[t] ELSE ToString(t)

\* line 358
ColumnName(tm, pr) == "g_" \o Label(tm, pr[1]) \o "-" \o Label(tm, pr[2])

(***************************************************************************)
(* main(): its steps                                                       *)
(***************************************************************************)
Start(inp) ==
    /\ lines = inp.lines
    /\ args = inp.args
    /\ later = inp.later
    /\ prev = <<>>
    /\ pc = "read"
    /\ err = ""
    /\ i = 0
    /\ frames = <<>>
    /\ tmap = <<>>
    /\ f0 = 0
    /\ f1 = 0
    /\ use = <<>>
    /\ all_types = <<>>
    /\ total_hist = <<>>
    /\ partial_hist = <<>>
    /\ k = 0
    /\ g_total = <<>>
    /\ partial_rdf = <<>>
    /\ txt = <<>>
    /\ fig = <<>>
    /\ SubIdle /\ LeoIdle /\ PdosIdle /\ SplitIdle

\* an uncaught exception: the process ends, nothing more is written
Raise(e) ==
    /\ pc' = "failed"
    /\ err' = e

\* lines 108-110: a line that opens no block is skipped
ReadScan ==
    /\ pc = "read"
    /\ args.fmt = "lammps"
    /\ i < Len(lines)
    /\ At(lines, i).hdr # "TIMESTEP"
    /\ i' = i + 1
    /\ UNCHANGED <<other_vars, lines, args, pc, err, frames, f0, f1, use, all_types,
                   total_hist, partial_hist, k, g_total, partial_rdf, txt, fig,
                   later, prev, tmap>>

\* lines 111-168: one block parsed into a frame
ReadBlock ==
    /\ pc = "read"
    /\ args.fmt = "lammps"
    /\ i < Len(lines)
    /\ At(lines, i).hdr = "TIMESTEP"
    /\ BlockErr(lines, i) = ""
    /\ frames' = Append(frames, BlockFrame(lines, i))
    /\ i' = BlockNext(lines, i)
    /\ UNCHANGED <<other_vars, lines, args, pc, err, f0, f1, use, all_types,
                   total_hist, partial_hist, k, g_total, partial_rdf, txt, fig,
                   later, prev, tmap>>

\* a block whose parse raises: the exception leaves read_lammps_all_frames and
\* main (line 256), and the frames parsed so far are lost with the call
ReadFail ==
    /\ pc = "read"
    /\ args.fmt = "lammps"
    /\ i < Len(lines)
    /\ At(lines, i).hdr = "TIMESTEP"
    /\ BlockErr(lines, i) # ""
    /\ Raise(BlockErr(lines, i))
    /\ frames' = <<>>
    /\ UNCHANGED <<other_vars, lines, args, i, f0, f1, use, all_types,
                   total_hist, partial_hist, k, g_total, partial_rdf, txt, fig,
                   later, prev, tmap>>

\* line 170: return frames
ReadDone ==
    /\ pc = "read"
    /\ args.fmt = "lammps"
    /\ i >= Len(lines)
    /\ pc' = "loaded"
    /\ UNCHANGED <<other_vars, lines, args, err, i, frames, f0, f1, use, all_types,
                   total_hist, partial_hist, k, g_total, partial_rdf, txt, fig,
                   later, prev, tmap>>

\* lines 261-269
TypeMapFail ==
    /\ pc = "loaded"
    /\ TypeMapErr(args.type_map) # ""
    /\ Raise(TypeMapErr(args.type_map))
    /\ UNCHANGED <<other_vars, lines, args, later, prev, i, frames, tmap, f0, f1, use, all_types,
                   total_hist, partial_hist, k, g_total, partial_rdf, txt, fig>>

TypeMap ==
    /\ pc = "loaded"
    /\ TypeMapErr(args.type_map) = ""
    /\ tmap' = ParseTypeMap(args.type_map)
    /\ pc' = "mapped"
    /\ UNCHANGED <<other_vars, lines, args, later, prev, err, i, frames, f0, f1, use, all_types,
                   total_hist, partial_hist, k, g_total, partial_rdf, txt, fig>>

\* lines 271-278
SelectWindow ==
    /\ pc = "mapped"
    /\ f0' = WindowStart(args.avg_frac, Len(frames))
    /\ f1' = WindowEnd(args.avg_frac, Len(frames))
    /\ use' = PySlice(frames, f0', f1')
    /\ pc' = "window"
    /\ UNCHANGED <<other_vars, lines, args, err, i, frames, all_types,
                   total_hist, partial_hist, k, g_total, partial_rdf, txt, fig,
                   later, prev, tmap>>

\* lines 288-298: what np.linspace, use[0] and np.zeros raise
SetupErr ==
    IF args.bins + 1 < 0 THEN "ValueError"        \* np.linspace(num < 0)
    ELSE IF Len(use) = 0 THEN "IndexError"        \* use[0]
    ELSE IF args.bins < 0 THEN "ValueError"       \* np.zeros(-1)
    ELSE ""

SetupFail ==
    /\ pc = "window"
    /\ SetupErr # ""
    /\ Raise(SetupErr)
    /\ UNCHANGED <<other_vars, lines, args, i, frames, f0, f1, use, all_types,
                   total_hist, partial_hist, k, g_total, partial_rdf, txt, fig,
                   later, prev, tmap>>

\* (the table opened, and its header written, before the loop over the frames)
SetupOpensTxt ==
    /\ pc = "window"
    /\ SetupErr = ""
    /\ all_types' = TypesOfFirst(use)
    /\ total_hist' = [b \in 1..args.bins |-> Zero]
    /\ partial_hist' = [key \in PairKeys(all_types') |-> [b \in 1..args.bins |-> Zero]]
    /\ k' = 0
    /\ pc' = "accum"
    /\ txt' = <<PairSeq(all_types', 1, 1), <<>>, <<"r", "g_total">>>>
    /\ UNCHANGED <<other_vars, lines, args, err, i, frames, f0, f1, use,
                   g_total, partial_rdf, fig,
                   later, prev, tmap>>

Setup ==
    /\ pc = "window"
    /\ SetupErr = ""
    /\ all_types' = TypesOfFirst(use)
    /\ total_hist' = [b \in 1..args.bins |-> Zero]
    /\ partial_hist' = [key \in PairKeys(all_types') |-> [b \in 1..args.bins |-> Zero]]
    /\ k' = 0
    /\ pc' = "accum"
    /\ UNCHANGED <<other_vars, lines, args, err, i, frames, f0, f1, use,
                   g_total, partial_rdf, txt, fig,
                   later, prev, tmap>>

\* lines 301-318 for one frame: what np.linalg.inv and np.histogram raise
AccumErr(fr) ==
    IF \E c \in 1..3 : fr.cell[c] = 0 THEN "LinAlgError"       \* singular lattice
    ELSE IF args.bins >= 1 /\ args.cutoff < 0 THEN "ValueError" \* edges decrease
    ELSE ""

AccumulateFail ==
    /\ pc = "accum"
    /\ k < Len(use)
    /\ AccumErr(use[k + 1]) # ""
    /\ Raise(AccumErr(use[k + 1]))
    /\ UNCHANGED <<other_vars, lines, args, i, frames, f0, f1, use, all_types,
                   total_hist, partial_hist, k, g_total, partial_rdf, txt, fig,
                   later, prev, tmap>>

\* (the positions of the frame wrapped into the cell in place, in the array
\* that frames and use share)
AccumulateWrapsInPlace ==
    /\ pc = "accum"
    /\ k < Len(use)
    /\ AccumErr(use[k + 1]) = ""
    /\ LET fr == use[k + 1]
           wrapped == [fr EXCEPT !.pos = [a \in DOMAIN fr.pos |->
                                             [c \in 1..3 |-> fr.pos[a][c] % fr.cell[c]]]]
       IN  /\ total_hist' =
                HistAdd(total_hist, Histogram(fr, AllPairs(fr), args.cutoff, args.bins))
           /\ partial_hist' =
                [key \in DOMAIN partial_hist |->
                    HistAdd(partial_hist[key],
                            Histogram(fr, partial_dist(fr, key[1], key[2]),
                                      args.cutoff, args.bins))]
           /\ use' = [use EXCEPT ![k + 1] = wrapped]
           /\ frames' = [frames EXCEPT ![f0 + k + 1] = wrapped]
    /\ k' = k + 1
    /\ UNCHANGED <<other_vars, lines, args, pc, err, i, f0, f1, all_types,
                   g_total, partial_rdf, txt, fig,
                   later, prev, tmap>>

Accumulate ==
    /\ pc = "accum"
    /\ k < Len(use)
    /\ AccumErr(use[k + 1]) = ""
    /\ LET fr == use[k + 1]
       IN  /\ total_hist' =
                HistAdd(total_hist, Histogram(fr, AllPairs(fr), args.cutoff, args.bins))
           /\ partial_hist' =
                [key \in DOMAIN partial_hist |->
                    HistAdd(partial_hist[key],
                            Histogram(fr, partial_dist(fr, key[1], key[2]),
                                      args.cutoff, args.bins))]
    /\ k' = k + 1
    /\ UNCHANGED <<other_vars, lines, args, pc, err, i, frames, f0, f1, use, all_types,
                   g_total, partial_rdf, txt, fig,
                   later, prev, tmap>>

\* lines 320-324
Average ==
    /\ pc = "accum"
    /\ k = Len(use)
    /\ total_hist' = HistDiv(total_hist, Len(use))
    /\ partial_hist' = [key \in DOMAIN partial_hist |-> HistDiv(partial_hist[key], Len(use))]
    /\ pc' = "averaged"
    /\ UNCHANGED <<other_vars, lines, args, err, i, frames, f0, f1, use, all_types, k,
                   g_total, partial_rdf, txt, fig,
                   later, prev, tmap>>

\* (the last frame of the window as the reference)
LastFrame(u) == u[Len(u)]

\* line 327: pos0, typ0, cell0, vol0 = use[0]
ReferenceFrame(u) == u[1]

\* lines 326-340
Normalize ==
    /\ pc = "averaged"
    /\ LET fr0 == ReferenceFrame(use)
           n0 == Len(fr0.typ)
       IN  /\ g_total' = rdf_normalize(total_hist, args.cutoff, args.bins, n0, n0, fr0.vol)
           /\ partial_rdf' =
                [key \in DOMAIN partial_hist |->
                    rdf_normalize(partial_hist[key], args.cutoff, args.bins,
                                  CountOf(fr0, key[1]), CountOf(fr0, key[2]), fr0.vol)]
    /\ pc' = "normalized"
    /\ UNCHANGED <<other_vars, lines, args, err, i, frames, f0, f1, use, all_types,
                   total_hist, partial_hist, k, txt, fig,
                   later, prev, tmap>>

\* lines 342-347: the first call of smooth raises
SmoothFail ==
    /\ pc = "normalized"
    /\ SmoothErr(g_total, args) # ""
    /\ Raise(SmoothErr(g_total, args))
    /\ UNCHANGED <<other_vars, lines, args, later, prev, i, frames, tmap, f0, f1, use, all_types,
                   total_hist, partial_hist, k, g_total, partial_rdf, txt, fig>>

Smooth ==
    /\ pc = "normalized"
    /\ SmoothErr(g_total, args) = ""
    /\ g_total' = smooth(g_total, args)
    /\ partial_rdf' = [key \in DOMAIN partial_rdf |-> smooth(partial_rdf[key], args)]
    /\ pc' = "smoothed"
    /\ UNCHANGED <<other_vars, lines, args, err, i, frames, f0, f1, use, all_types,
                   total_hist, partial_hist, k, txt, fig,
                   later, prev, tmap>>

\* (the file opened for appending)
Kept(held) == held

\* open(args.txt, "w"): what the file held is gone
Truncated(held) == <<>>

\* (a column only for the pairs of types that the type map names, when one is
\* given)
NamedPairs(tm, prs) ==
    IF DOMAIN tm = {} THEN prs
    ELSE SelectSeq(prs, LAMBDA pr : pr[1] \in DOMAIN tm /\ pr[2] \in DOMAIN tm)

\* the pair columns of the table: every pair of the loop of lines 354-357
Columns(tm, prs) == prs

\* lines 352-372: the header names and one row per bin centre (len(r) rows),
\* each the radius, g_total[i] and the pair values in the loop order; the pairs
\* of the columns are kept with the table
WriteTxt ==
    /\ pc = "smoothed"
    /\ LET prs == Columns(tmap, PairSeq(all_types, 1, 1))
       IN  txt' = Truncated(txt) \o
                  <<prs,
                    [b \in 1..args.bins |->
                        <<BinCentre(b, args.cutoff, args.bins), g_total[b]>>
                        \o [c \in DOMAIN prs |-> partial_rdf[prs[c]][b]]],
                    <<"r", "g_total">> \o [c \in DOMAIN prs |-> ColumnName(tmap, prs[c])]>>
    /\ pc' = "written"
    /\ UNCHANGED <<other_vars, lines, args, later, prev, err, i, frames, tmap, f0, f1, use, all_types,
                   total_hist, partial_hist, k, g_total, partial_rdf, fig>>

\* ax.plot(r, y) of two arrays of different lengths raises
PlotErr == IF Len(g_total) # args.bins THEN "ValueError" ELSE ""

PlotFail ==
    /\ pc = "written"
    /\ PlotErr # ""
    /\ Raise(PlotErr)
    /\ UNCHANGED <<other_vars, lines, args, later, prev, i, frames, tmap, f0, f1, use, all_types,
                   total_hist, partial_hist, k, g_total, partial_rdf, txt, fig>>

\* lines 377-405: one panel for the total, one per pair
Plot ==
    /\ pc = "written"
    /\ PlotErr = ""
    /\ fig' = <<<<0, 0>>>> \o PairSeq(all_types, 1, 1)
    /\ pc' = "done"
    /\ UNCHANGED <<other_vars, lines, args, later, prev, err, i, frames, tmap, f0, f1, use, all_types,
                   total_hist, partial_hist, k, g_total, partial_rdf, txt>>

\* lines 408-409: the script is run again on the same file, with the next
\* command line; the files the earlier run wrote are still there
Rerun ==
    /\ pc = "done"
    /\ later # <<>>
    /\ args' = Head(later)
    /\ later' = Tail(later)
    /\ prev' = Append(prev, <<args, txt>>)
    /\ pc' = "read"
    /\ i' = 0
    /\ frames' = <<>>
    /\ tmap' = <<>>
    /\ f0' = 0
    /\ f1' = 0
    /\ use' = <<>>
    /\ all_types' = <<>>
    /\ total_hist' = <<>>
    /\ partial_hist' = <<>>
    /\ k' = 0
    /\ g_total' = <<>>
    /\ partial_rdf' = <<>>
    /\ UNCHANGED <<other_vars, lines, err, txt, fig>>

Next ==
    \/ ReadScan
    \/ ReadBlock
    \/ ReadFail
    \/ ReadDone
    \/ TypeMapFail
    \/ TypeMap
    \/ SelectWindow
    \/ SetupFail
    \/ Setup
    \/ AccumulateFail
    \/ Accumulate
    \/ Average
    \/ Normalize
    \/ SmoothFail
    \/ Smooth
    \/ WriteTxt
    \/ PlotFail
    \/ Plot
    \/ Rerun

(***************************************************************************)
(* Inputs: dump files and command lines                                    *)
(***************************************************************************)
\* a block as LAMMPS writes it: box = three <<lo, hi>> lines, rows = atom rows
MkBlock(step, box, cols, rows) ==
    <<Hdr("TIMESTEP"), Data(<<step>>), Hdr("NUMBER"), Data(<<Len(rows)>>),
      Hdr("BOX"), Data(box[1]), Data(box[2]), Data(box[3]), AtomsHdr(cols)>>
    \o [r \in 1..Len(rows) |-> Data(rows[r])]

StdCols == <<"id", "type", "x", "y", "z">>

CubicBox(lo, edge) == <<<<lo, lo + edge>>, <<lo, lo + edge>>, <<lo, lo + edge>>>>

\* rows "id type x y z" for atoms given as <<type, position>>
RowsOf(atoms) ==
    [r \in 1..Len(atoms) |->
        <<r, atoms[r][1], atoms[r][2][1], atoms[r][2][2], atoms[r][2][3]>>]

RECURSIVE Flatten(_)
Flatten(blocks) ==
    IF blocks = <<>> THEN <<>> ELSE Head(blocks) \o Flatten(Tail(blocks))

\* argparse defaults are --avg-frac 0.8 1.0 --smooth off --window 5 --sigma 1.0
\* and no --type-map; the model's bins and cutoff are small; --fmt is lammps
\* unless WithFmt says otherwise
MkArgs(frac, cutoff, bins) ==
    [fmt |-> "lammps", avg_frac |-> frac, cutoff |-> cutoff, bins |-> bins,
     type_map |-> <<>>, smooth |-> "off", window |-> 5, sigma |-> 3]

WithSmooth(a, mode, w, s) == [a EXCEPT !.smooth = mode, !.window = w, !.sigma = s]

WithFmt(a, f) == [a EXCEPT !.fmt = f]

WithTypeMap(a, tm) == [a EXCEPT !.type_map = tm]

MaxAtoms == 2

MaxFrames == 10

MaxEdge == 4

MaxGood == 2

Edge == 4

TypeSet == {1, 2}

\* sites of a cubic cell of edge 4: 1-2 one apart through the boundary, 2-3 at
\* half the edge, 1-3 wrapped along x and at half the edge along y
Sites == << <<0, 0, 0>>, <<3, 0, 0>>, <<3, 2, 0>> >>

\* atom lists of up to MaxAtoms atoms, one list per multiset of <<type, site>>
\* (ordered by site, then by type)
AtomLists ==
    UNION {{[r \in 1..n |-> <<a[r][1], Sites[a[r][2]]>>] :
              a \in {a \in [1..n -> TypeSet \X DOMAIN Sites] :
                        \A r \in 1..(n - 1) :
                            \/ a[r][2] < a[r + 1][2]
                            \/ a[r][2] = a[r + 1][2] /\ a[r][1] <= a[r + 1][1]}} :
           n \in 1..MaxAtoms}

ContentBlocks == {MkBlock(0, CubicBox(0, Edge), StdCols, RowsOf(a)) : a \in AtomLists}

\* the atom lists on the first two sites
PairSiteLists == {a \in AtomLists : \A r \in DOMAIN a : a[r][2] \in {Sites[1], Sites[2]}}

PairSiteBlocks == {MkBlock(1, CubicBox(0, Edge), StdCols, RowsOf(a)) : a \in PairSiteLists}

\* files of one frame, and of two with the second on the first two sites
ContentFiles == ContentBlocks \cup {b1 \o b2 : b1 \in ContentBlocks, b2 \in PairSiteBlocks}

PairBlock == MkBlock(0, CubicBox(0, Edge), StdCols,
                     RowsOf(<< <<1, Sites[1]>>, <<2, Sites[2]>> >>))

\* three atoms of three types, not in type order
TripleBlock == MkBlock(0, CubicBox(0, Edge), StdCols,
                       RowsOf(<< <<3, Sites[1]>>, <<1, Sites[2]>>, <<2, Sites[3]>> >>))

\* an entry without a colon, such as "Al"
BadEntry == [n |-> 1, num |-> FALSE, k |-> 0, v |-> ""]

DefaultArgs == MkArgs(<<8, 10>>, 3, 2)

Once(f, a) == [lines |-> f, args |-> a, later |-> <<>>]

\* inputs that take every branch of main(): a leading comment line and a second
\* run, a block without its atom-count header, an empty file, a negative
\* cutoff, a type map without a colon, a moving average of width 0 and one
\* wider than the curve
CommonInputs ==
    {[lines |-> <<Hdr("TEXT")>> \o PairBlock, args |-> DefaultArgs, later |-> <<DefaultArgs>>],
     Once(<<Hdr("TIMESTEP"), Data(<<0>>), Hdr("BOX")>>, DefaultArgs),
     Once(<<>>, DefaultArgs),
     Once(PairBlock, MkArgs(<<8, 10>>, -1, 2)),
     Once(PairBlock, WithTypeMap(DefaultArgs, <<BadEntry>>)),
     Once(PairBlock, WithSmooth(DefaultArgs, "moving", 0, 3)),
     Once(PairBlock, WithSmooth(DefaultArgs, "moving", 5, 3))}

\* the whole trajectory as the window; single frames also with the cutoff at
\* half the edge
ContentInputs ==
    {[lines |-> f, args |-> MkArgs(<<0, FracDen>>, c, 2), later |-> <<>>] : f \in ContentBlocks, c \in {2, 3}}
    \cup {[lines |-> f, args |-> MkArgs(<<0, FracDen>>, 3, 2), later |-> <<>>] : f \in ContentFiles}
    \cup {Once(TripleBlock, MkArgs(<<0, FracDen>>, c, 2)) : c \in {2, 3}}

\* n frames told apart by the type of their single atom: frame j holds type j+1
IndexedFile(n) ==
    Flatten([j \in 1..n |-> MkBlock(j - 1, CubicBox(0, Edge), StdCols,
                                    RowsOf(<< <<j, Sites[1]>> >>))])

\* a long trajectory: LongWindow frames, all alike
LongWindow == 90

LongFile ==
    LET blk == IndexedFile(1)
    IN  [j \in 1..(LongWindow * Len(blk)) |-> blk[((j - 1) % Len(blk)) + 1]]

WindowInputs ==
    {[lines |-> IndexedFile(n), args |-> MkArgs(<<a, b>>, 3, 2), later |-> <<>>] :
        n \in 0..MaxFrames, a \in 0..FracDen, b \in 0..FracDen}
    \cup {Once(LongFile, MkArgs(<<7, FracDen>>, 3, 2))}

ArgsInputs ==
    {[lines |-> PairBlock \o PairBlock, args |-> MkArgs(<<a, b>>, c, n), later |-> <<>>] :
        a \in {0, 5, 8, 10}, b \in {0, 5, 8, 10}, c \in {-1, 0, 2}, n \in -2..2}

\* two atoms of a cubic cell of edge e, separated along one axis
AxisPos(x, axis) == [c \in 1..3 |-> IF c = axis THEN x ELSE 0]

DistInputs ==
    {[lines |-> MkBlock(0, CubicBox(0, e), StdCols,
                        RowsOf(<< <<1, AxisPos(x1, axis)>>, <<1, AxisPos(x2, axis)>> >>)),
      args |-> MkArgs(<<8, 10>>, 3, 3), later |-> <<>>] :
        e \in 2..MaxEdge, x1 \in 0..MaxEdge, x2 \in (-MaxEdge)..(2 * MaxEdge), axis \in 1..3}

Init == \E inp \in ContentInputs \cup CommonInputs : Start(inp)

InitWindow == \E inp \in WindowInputs \cup CommonInputs : Start(inp)

InitArgs == \E inp \in ArgsInputs \cup CommonInputs : Start(inp)

\* windows of two frames that differ in cell edge, atom count and species
\* counts: atoms on the first two sites
NormBlocks ==
    {MkBlock(0, CubicBox(0, e), StdCols, RowsOf(a)) : e \in 2..MaxEdge, a \in PairSiteLists}

NormInputs ==
    {Once(b1 \o b2, MkArgs(<<0, FracDen>>, 3, 2)) : b1, b2 \in NormBlocks}

\* absent, one type named, all named in either order, other symbols, one key
\* twice, one symbol twice, a type the file does not hold
TypeMaps ==
    {<<>>,
     <<Entry(1, "Al")>>,
     <<Entry(1, "Al"), Entry(2, "Sc")>>,
     <<Entry(2, "Sc"), Entry(1, "Al")>>,
     <<Entry(1, "Cu"), Entry(2, "Se"), Entry(3, "Ag")>>,
     <<Entry(1, "Al"), Entry(1, "Cu")>>,
     <<Entry(1, "Al"), Entry(2, "Al")>>,
     <<Entry(4, "N")>>}

\* the script run twice on one file, the two command lines differing at most in
\* --type-map
RunInputs ==
    {[lines |-> f,
      args |-> WithTypeMap(MkArgs(<<0, FracDen>>, 3, 2), m1),
      later |-> <<WithTypeMap(MkArgs(<<0, FracDen>>, 3, 2), m2)>>] :
        f \in ContentBlocks \cup {TripleBlock}, m1 \in TypeMaps, m2 \in TypeMaps}

MaxCutoff == 5

MaxBins == 4

MaxWindow == 5

\* --smooth off, moving with widths -1..MaxWindow, gaussian with sigma -1/3..1
SmoothModes ==
    {<<"off", 5, 3>>}
    \cup {<<"moving", w, 3>> : w \in (-1)..MaxWindow}
    \cup {<<"gaussian", 5, sg>> : sg \in (-1)..3}

\* every cutoff, bin count and smoothing on two files, and the spec's scenario
\* of cutoff 5 with 50 bins
SmoothInputs ==
    {Once(f, WithSmooth(MkArgs(<<0, FracDen>>, c, n), sm[1], sm[2], sm[3])) :
        f \in {PairBlock, TripleBlock}, c \in 1..MaxCutoff, n \in 1..MaxBins,
        sm \in SmoothModes}
    \cup {Once(PairBlock, WithSmooth(MkArgs(<<0, FracDen>>, 5, 50), sm[1], sm[2], sm[3])) :
            sm \in {<<"off", 5, 3>>, <<"moving", 5, 3>>}}

InitDist == \E inp \in DistInputs \cup CommonInputs : Start(inp)

InitSmooth == \E inp \in SmoothInputs \cup CommonInputs : Start(inp)

InitRuns == \E inp \in RunInputs \cup CommonInputs : Start(inp)

InitNorm == \E inp \in NormInputs \cup CommonInputs : Start(inp)

Spec == Init /\ [][Next]_vars

SpecWindow == InitWindow /\ [][Next]_vars

SpecArgs == InitArgs /\ [][Next]_vars

SpecDist == InitDist /\ [][Next]_vars

SpecSmooth == InitSmooth /\ [][Next]_vars

SpecRuns == InitRuns /\ [][Next]_vars

SpecNorm == InitNorm /\ [][Next]_vars

(***************************************************************************)
(* Dump files with one damaged block, after up to MaxGood whole blocks and *)
(* before at most one more                                                 *)
(***************************************************************************)
WideCols == <<"id", "type", "x", "y", "z", "vx">>

WideBlock == MkBlock(0, CubicBox(0, Edge), WideCols,
                     << <<1, 1, 0, 0, 0, 7>>, <<2, 2, 3, 0, 0, 7>> >>)

\* the file ends inside the block: p lines of it were written
CutAfter(blk, p) == SubSeq(blk, 1, p)

\* the file ends inside the block's last line: q tokens of it were written
CutInLastRow(blk, q) ==
    [blk EXCEPT ![Len(blk)] = Data(SubSeq(blk[Len(blk)].toks, 1, q))]

DropLine(blk, j) == SubSeq(blk, 1, j - 1) \o SubSeq(blk, j + 1, Len(blk))

ReplaceLine(blk, j, l) == [blk EXCEPT ![j] = l]

\* blocks cut off in their atom rows (line 10 on) or in an atom row
CutBlocks ==
    {CutAfter(b, p) : b \in {PairBlock, WideBlock}, p \in 9..10}
    \cup {CutInLastRow(PairBlock, q) : q \in 0..4}
    \cup {CutInLastRow(CutAfter(PairBlock, 10), q) : q \in 0..4}
    \cup {CutInLastRow(WideBlock, q) : q \in 0..5}

DamagedBlocks ==
    CutBlocks
    \cup {CutAfter(PairBlock, p) : p \in 1..8}
    \cup {DropLine(PairBlock, j) : j \in 1..Len(PairBlock)}
    \cup {ReplaceLine(PairBlock, j, Hdr("TEXT")) : j \in 1..Len(PairBlock)}
    \cup {ReplaceLine(PairBlock, 9, AtomsHdr(c)) :
            c \in {<<"id", "kind", "x", "y", "z">>, <<"id", "type", "x", "y">>,
                   <<"type", "z", "y", "x", "id">>, <<>>}}
    \cup {ReplaceLine(PairBlock, 7, Data(t)) : t \in {<<0>>, <<0, 4, 0>>, <<0, 4, 0, 0>>}}
    \cup {ReplaceLine(PairBlock, 4, Data(<<n>>)) : n \in {-1, 0, 1, 3}}

RECURSIVE Repeat(_, _)
Repeat(blk, n) == IF n = 0 THEN <<>> ELSE blk \o Repeat(blk, n - 1)

ReadInputs ==
    {[lines |-> Repeat(PairBlock, a) \o d \o Repeat(PairBlock, b),
      args |-> MkArgs(<<0, FracDen>>, 3, 2), later |-> <<>>] :
        a \in 0..MaxGood, d \in DamagedBlocks, b \in 0..1}

InitRead == \E inp \in ReadInputs \cup CommonInputs : Start(inp)

SpecRead == InitRead /\ [][Next]_vars

(***************************************************************************)
(* Properties                                                              *)
(***************************************************************************)
\* main() has selected its window and not failed
Windowed == pc \in {"window", "accum", "averaged", "normalized", "smoothed", "written", "done"}

\* the accumulator exists
Accumulating == pc \in {"accum", "averaged", "normalized", "smoothed", "written", "done"}

\* the floor of n*m/d, by its defining inequalities
IsFloorOf(q, n, d, m) == q * d <= n * m /\ n * m < (q + 1) * d

\* the 0-based indices of the frames in use, read off the single atom type that
\* tells the frames of IndexedFile apart
UsedIndices == {use[m].typ[1] - 1 : m \in DOMAIN use}

IsIndexedRun == \A j \in DOMAIN frames : frames[j].typ = <<j>>

\* the frames the window [f0, f1) holds
WindowIndices == {j \in 0..(Len(frames) - 1) : f0 <= j /\ j < f1}

\* C1: the window is frames[s:e] with s = floor(f0*N), e = floor(f1*N), and
\* e = s + 1 when floor(f1*N) <= s; the frames processed are exactly those whose
\* index lies in [s, e); for N = 10, (0.8, 1.0) gives frames 8 and 9 and
\* (0.5, 0.5) gives frame 5.
C1_WindowSelection ==
    Windowed =>
        LET n == Len(frames)
            a == args.avg_frac
        IN  /\ IsFloorOf(f0, a[1], FracDen, n)
            /\ \E e \in 0..n :
                  /\ IsFloorOf(e, a[2], FracDen, n)
                  /\ f1 = IF e <= f0 THEN f0 + 1 ELSE e
            /\ Len(use) = Cardinality(WindowIndices)
            /\ \A m \in DOMAIN use : use[m] = frames[f0 + m]
            /\ (pc \in {"averaged", "done"} => k = Len(use))
            /\ IsIndexedRun =>
                  /\ UsedIndices = WindowIndices
                  /\ (n = 10 /\ 10 * a[1] = 8 * FracDen /\ a[2] = FracDen)
                        => UsedIndices = {8, 9}
                  /\ (n = 10 /\ 2 * a[1] = FracDen /\ a[2] = a[1])
                        => UsedIndices = {5}

\* what int() leaves of the double product: the floor of n*m/d, or one less
\* where n*m/d is a whole number and the double product falls short of it
IsCutOf(q, n, d, m) ==
    \/ IsFloorOf(q, n, d, m)
    \/ q >= 0 /\ (q + 1) * d = n * m

\* the window is the slice frames[f0:f1] of bounds that are the floors or one
\* less, and every frame of it is accumulated once
WindowIsSlice ==
    Windowed =>
        LET n == Len(frames)
            a == args.avg_frac
        IN  /\ IsCutOf(f0, a[1], FracDen, n)
            /\ \E e \in 0..n :
                  /\ IsCutOf(e, a[2], FracDen, n)
                  /\ f1 = IF e <= f0 THEN f0 + 1 ELSE e
            /\ Len(use) = Cardinality(WindowIndices)
            /\ \A m \in DOMAIN use : use[m] = frames[f0 + m]
            /\ (pc \in {"averaged", "done"} => k = Len(use))
            /\ IsIndexedRun => UsedIndices = WindowIndices

\* a run that started its window one frame before floor(f0*N)
WindowOneEarly ==
    /\ pc = "done"
    /\ Len(frames) = LongWindow
    /\ (f0 + 1) * FracDen = args.avg_frac[1] * Len(frames)
    /\ Len(use) = Len(frames) - f0
    /\ k = Len(use)

C1_Witness ==
    /\ pc = "done"
    /\ Len(frames) = 10
    /\ 2 * args.avg_frac[1] = FracDen
    /\ args.avg_frac[2] = args.avg_frac[1]
    /\ IsIndexedRun
    /\ k = 1
    /\ UsedIndices = {5}

\* C2 (as claimed): every non-empty trajectory and every pair of bounds in
\* [0, 1] gives a window of at least one frame.
C2_WindowNonEmpty ==
    (pc = "window" /\ Len(frames) >= 1) => Len(use) >= 1

\* the counts one frame adds to a histogram when only pairs of two different
\* atoms are counted
HistogramOfDistinct(fr, prs, cutoff, bins) ==
    [b \in 1..bins |->
        Cardinality({pr \in prs :
            LET d2 == PairDist2(fr.cell, fr.pos[pr[1]], fr.pos[pr[2]])
            IN  /\ pr[1] # pr[2]
                /\ d2 > 0 /\ cutoff > 0 /\ d2 < cutoff * cutoff
                /\ InBin(d2, b, cutoff, bins)})]

RECURSIVE SumDistinct(_, _, _, _)
SumDistinct(m, ta, tb, b) ==
    IF m = 0 THEN 0
    ELSE SumDistinct(m - 1, ta, tb, b) +
         HistogramOfDistinct(use[m],
             IF ta = 0 THEN AllPairs(use[m]) ELSE OfType(use[m], ta) \X OfType(use[m], tb),
             args.cutoff, args.bins)[b]

\* the divisor applied to the histograms so far
Divisor == IF pc = "accum" THEN 1 ELSE Len(use)

\* C3: a pair (i, i) adds no count to any bin of the total or of a species-pair
\* histogram: every histogram is the count of the pairs of two different atoms.
C3_NoSelfPairs ==
    Accumulating =>
        /\ \A b \in DOMAIN total_hist :
              total_hist[b] = Rat(SumDistinct(k, 0, 0, b), Divisor)
        /\ \A key \in DOMAIN partial_hist : \A b \in DOMAIN partial_hist[key] :
              partial_hist[key][b] = Rat(SumDistinct(k, key[1], key[2], b), Divisor)

C3_Witness ==
    /\ pc = "accum"
    /\ k = 2
    /\ Len(use[1].typ) = 2
    /\ total_hist[1] = <<2, 1>>
    /\ <<1, 1>> \in DOMAIN partial_hist
    /\ partial_hist[<<1, 1>>][1] = <<2, 1>>

\* two atoms of a cubic cell that are separated along one axis only
AxisSeparated(fr, a, b) ==
    /\ fr.cell[1] = fr.cell[2] /\ fr.cell[2] = fr.cell[3]
    /\ Cardinality({c \in 1..3 : fr.pos[a][c] # fr.pos[b][c]}) <= 1

\* the separation's component along that axis
AxisDelta(fr, a, b) ==
    (fr.pos[a][1] - fr.pos[b][1]) + (fr.pos[a][2] - fr.pos[b][2]) + (fr.pos[a][3] - fr.pos[b][3])

\* C4: in a cubic cell of edge L two atoms separated by s along one axis are at
\* distance L*|s - round(s)|, the least |s*L - n*L| over the integers n, which is
\* at most L/2; a separation of half the edge gives exactly L/2 in both orders.
C4_MinimumImage ==
    \A j \in DOMAIN frames : \A a, b \in DOMAIN frames[j].pos :
        AxisSeparated(frames[j], a, b) =>
            LET fr == frames[j]
                L == fr.cell[1]
                dl == AxisDelta(fr, a, b)
                d2 == PairDist2(fr.cell, fr.pos[a], fr.pos[b])
            IN  /\ 4 * d2 <= L * L
                /\ \E n \in (-Abs(dl))..Abs(dl) : d2 = (dl - n * L) * (dl - n * L)
                /\ \A n \in (-Abs(dl))..Abs(dl) : d2 <= (dl - n * L) * (dl - n * L)
                /\ (2 * Abs(dl) = L) => 4 * d2 = L * L
                /\ (pc = "accum" /\ k = 1 /\ use[1] = fr /\ a # b /\ Len(fr.typ) = 2) =>
                      \A bn \in DOMAIN total_hist :
                          total_hist[bn] =
                              IF d2 > 0 /\ d2 < args.cutoff * args.cutoff
                                 /\ InBin(d2, bn, args.cutoff, args.bins)
                              THEN <<2, 1>> ELSE Zero

C4_Witness ==
    /\ pc = "accum"
    /\ k = 1
    /\ use[1].cell = <<4, 4, 4>>
    /\ use[1].pos = << <<0, 0, 0>>, <<2, 0, 0>> >>
    /\ PairDist2(use[1].cell, use[1].pos[1], use[1].pos[2]) = 4
    /\ PairDist2(use[1].cell, use[1].pos[2], use[1].pos[1]) = 4
    /\ total_hist[3] = <<2, 1>>

RECURSIVE SumReversed(_, _, _, _)
SumReversed(m, ta, tb, b) ==
    IF m = 0 THEN 0
    ELSE SumReversed(m - 1, ta, tb, b) +
         Histogram(use[m], partial_dist(use[m], tb, ta), args.cutoff, args.bins)[b]

\* C5: for two different types the histogram of the distances from ta to tb
\* equals, bin by bin, that from tb to ta, in every frame; the histogram stored
\* under (min, max) is the one the reversed order gives.
C5_PairSymmetry ==
    /\ \A j \in DOMAIN frames : \A ta, tb \in Range(frames[j].typ) :
          ta # tb =>
              Histogram(frames[j], partial_dist(frames[j], ta, tb), args.cutoff, Max(args.bins, 0))
              = Histogram(frames[j], partial_dist(frames[j], tb, ta), args.cutoff, Max(args.bins, 0))
    /\ Accumulating =>
          \A key \in DOMAIN partial_hist : \A b \in DOMAIN partial_hist[key] :
              key[1] # key[2] =>
                  partial_hist[key][b] = Rat(SumReversed(k, key[1], key[2], b), Divisor)

C5_Witness ==
    /\ pc = "accum"
    /\ k = 1
    /\ use[1].typ = <<1, 2>>
    /\ use[1].pos = << <<0, 0, 0>>, <<3, 0, 0>> >>
    /\ partial_hist[<<1, 2>>][1] = <<1, 1>>

\* the frames of a whole blocks of PairBlock
PairFrames(a) == [j \in 1..a |-> BlockFrame(PairBlock, 0)]

\* C6 (as claimed): a dump of a whole blocks followed by a block cut off in its
\* atom rows, or in an atom row, is read without error into exactly the a whole
\* frames.
C6_TruncatedBlockDropped ==
    \A a \in 0..MaxGood : \A d \in CutBlocks :
        (lines = Repeat(PairBlock, a) \o d /\ pc # "read") =>
            /\ pc # "failed"
            /\ frames = PairFrames(a)

\* line j of the file is missing or is not the header h
LacksHeader(ls, j, h) == j >= Len(ls) \/ At(ls, j).hdr # h

\* the block that starts at line i0 lacks a section header at its expected
\* place, or its atoms header names no "type" column
MalformedAt(ls, i0) ==
    \/ LacksHeader(ls, i0 + 2, "NUMBER")
    \/ LacksHeader(ls, i0 + 4, "BOX")
    \/ LacksHeader(ls, i0 + 8, "ATOMS")
    \/ \A c \in DOMAIN At(ls, i0 + 8).cols : At(ls, i0 + 8).cols[c] # "type"

AtMalformedBlock ==
    /\ i < Len(lines)
    /\ At(lines, i).hdr = "TIMESTEP"
    /\ MalformedAt(lines, i)

\* C7: a block that opens with a timestep marker and lacks the atom-count, box
\* or atoms header at its place, or a "type" column, ends the read with an
\* error: no trajectory is returned, no histogram is accumulated, no output is
\* written, and nothing happens afterwards.
C7_FormatErrorFatal ==
    /\ [][(pc = "read" /\ AtMalformedBlock) =>
            (pc' = "failed" /\ err' # "" /\ frames' = <<>>)]_vars
    /\ []((pc # "read" /\ AtMalformedBlock) =>
            /\ pc = "failed"
            /\ frames = <<>> /\ use = <<>>
            /\ total_hist = <<>> /\ partial_hist = <<>>
            /\ txt = <<>> /\ fig = <<>>)
    /\ [][pc = "failed" => UNCHANGED vars]_vars

C7_Witness ==
    /\ pc = "failed"
    /\ err = "RuntimeError"
    /\ i = 2 * Len(PairBlock)
    /\ AtMalformedBlock
    /\ ~LacksHeader(lines, i + 2, "NUMBER")
    /\ LacksHeader(lines, i + 4, "BOX")
    /\ frames = <<>>
    /\ txt = <<>>

\* C8 (as claimed): a non-positive cutoff, a non-positive bin count or window
\* bounds with f1 <= f0 end the run before any frame is processed, with no
\* output.
C8_RangeErrorBeforeProcessing ==
    (args.cutoff <= 0 \/ args.bins <= 0 \/ args.avg_frac[2] <= args.avg_frac[1]) =>
        /\ k = 0
        /\ pc \notin {"averaged", "normalized", "smoothed", "written", "done"}
        /\ txt = <<>> /\ fig = <<>>

\* a frame of the window holds no atom of ta or none of tb
LacksType(fr, key) == CountOf(fr, key[1]) = 0 \/ CountOf(fr, key[2]) = 0

AllZero(h) == \A b \in DOMAIN h : h[b] = Zero

\* C9 (as claimed): a pair that has no atom of one of its types in some frame of
\* the window has an all-zero histogram and an all-zero g(r).
C9_EmptyPairAllZero ==
    pc \in {"averaged", "normalized", "smoothed", "written", "done"} =>
        \A key \in DOMAIN partial_hist :
            (\E m \in DOMAIN use : LacksType(use[m], key)) =>
                /\ AllZero(partial_hist[key])
                /\ (pc # "averaged" => AllZero(partial_rdf[key]))

RECURSIVE SumPresent(_, _, _)
SumPresent(m, key, b) ==
    IF m = 0 THEN 0
    ELSE SumPresent(m - 1, key, b) +
         (IF LacksType(use[m], key) THEN 0
          ELSE HistogramOfDistinct(use[m], OfType(use[m], key[1]) \X OfType(use[m], key[2]),
                                   args.cutoff, args.bins)[b])

\* C9 (amended): a frame that holds no atom of ta or none of tb adds nothing to
\* the pair's histogram, which is the sum over the frames that hold both; such a
\* frame does not end the run; and with a positive cutoff no denominator of the
\* normalisation is zero.
C9_EmptyPairFrameAddsNothing ==
    /\ Accumulating =>
          \A key \in DOMAIN partial_hist : \A b \in DOMAIN partial_hist[key] :
              partial_hist[key][b] = Rat(SumPresent(k, key, b), Divisor)
    /\ (pc = "failed" /\ all_types # <<>> /\ k < Len(use)) => args.cutoff < 0
    /\ (pc \in {"normalized", "smoothed", "written", "done"} /\ args.cutoff > 0) =>
          \A key \in DOMAIN partial_rdf : \A b \in DOMAIN partial_rdf[key] :
              partial_rdf[key][b][2] # 0

C9_Witness ==
    /\ pc = "done"
    /\ Len(use) = 2
    /\ use[1].typ = <<1, 2>>
    /\ use[2].typ = <<1, 1>>
    /\ use[2].pos = << <<0, 0, 0>>, <<3, 0, 0>> >>
    /\ ~AllZero(partial_hist[<<1, 2>>])
    /\ ~AllZero(partial_rdf[<<1, 2>>])

\* the unordered pairs of the types of the first frame of the window
FirstFramePairs ==
    {pr \in Range(use[1].typ) \X Range(use[1].typ) : pr[1] <= pr[2]}

\* C10: from the creation of the accumulator to the output the keys of the
\* per-pair histograms (and of the curves and columns derived from them) are the
\* unordered pairs of the types of the first window frame, whatever the later
\* frames hold.
C10_PairKeys ==
    /\ Accumulating => DOMAIN partial_hist = FirstFramePairs
    /\ pc \in {"normalized", "smoothed", "written", "done"} =>
          DOMAIN partial_rdf = FirstFramePairs
    /\ pc \in {"written", "done"} => Range(txt[1]) = FirstFramePairs

C10_Witness ==
    /\ pc = "done"
    /\ k = 2
    /\ use[1].typ = <<1, 1>>
    /\ use[2].typ = <<1, 2>>
    /\ DOMAIN partial_hist = {<<1, 1>>}

\* a <= b for two rationals of positive denominators
RatLeq(a, b) == a[1] * b[2] <= b[1] * a[2]

HistLeq(g, h) == \A b \in DOMAIN g : RatLeq(g[b], h[b])

\* the histograms are finalized and the run goes on
Finalized == pc \in {"averaged", "normalized", "smoothed", "written", "done"}

\* C11: every histogram starts at zero, takes the counts of frame k+1 of the
\* window at the k+1-th update (one update per frame, in frame order), never
\* decreases and is never reset while accumulating, is divided by the frame
\* count once, after the last frame, and does not change afterwards in the run;
\* the curves are derived from the finalized histograms, once.
C11_AccumulatorLifecycle ==
    /\ [][(pc = "window" /\ pc' = "accum") =>
            /\ k' = 0
            /\ AllZero(total_hist')
            /\ \A key \in DOMAIN partial_hist' : AllZero(partial_hist'[key])]_vars
    /\ [][(pc = "accum" /\ pc' = "accum") =>
            /\ k < Len(use) /\ k' = k + 1
            /\ HistLeq(total_hist, total_hist')
            /\ \A b \in DOMAIN total_hist :
                  total_hist'[b] =
                      RatAdd(total_hist[b],
                             <<Histogram(use[k + 1], AllPairs(use[k + 1]),
                                         args.cutoff, args.bins)[b], 1>>)
            /\ DOMAIN partial_hist' = DOMAIN partial_hist
            /\ \A key \in DOMAIN partial_hist :
                  /\ HistLeq(partial_hist[key], partial_hist'[key])
                  /\ \A b \in DOMAIN partial_hist[key] :
                        partial_hist'[key][b] =
                            RatAdd(partial_hist[key][b],
                                   <<Histogram(use[k + 1],
                                               partial_dist(use[k + 1], key[1], key[2]),
                                               args.cutoff, args.bins)[b], 1>>)]_vars
    /\ [][(pc = "accum" /\ pc' = "averaged") =>
            /\ k = Len(use) /\ k' = k
            /\ \A b \in DOMAIN total_hist :
                  total_hist'[b] = Rat(total_hist[b][1], total_hist[b][2] * Len(use))
            /\ \A key \in DOMAIN partial_hist : \A b \in DOMAIN partial_hist[key] :
                  partial_hist'[key][b] =
                      Rat(partial_hist[key][b][1], partial_hist[key][b][2] * Len(use))]_vars
    /\ [][(total_hist' # total_hist \/ partial_hist' # partial_hist \/ k' # k) =>
            \/ pc = "window" /\ pc' = "accum"
            \/ pc = "accum" /\ pc' \in {"accum", "averaged"}
            \/ pc = "done" /\ pc' = "read"]_vars
    /\ [][(g_total' # g_total \/ partial_rdf' # partial_rdf) =>
            \/ /\ pc = "averaged" /\ pc' = "normalized"
               /\ total_hist' = total_hist /\ partial_hist' = partial_hist
            \/ pc = "normalized" /\ pc' = "smoothed"
            \/ pc = "done" /\ pc' = "read"]_vars
    /\ [](pc \in {"read", "loaded", "mapped", "window", "accum"} =>
            g_total = <<>> /\ partial_rdf = <<>>)

C11_Witness ==
    /\ pc = "done"
    /\ Len(use) = 2
    /\ k = 2
    /\ total_hist[1] = <<2, 1>>
    /\ partial_hist[<<1, 1>>][1] = <<2, 1>>
    /\ g_total[1] # Zero

\* the index pairs whose distances go to the histogram of key; <<0, 0>> is the
\* total
PairsOf(fr, key) ==
    IF key = <<0, 0>> THEN AllPairs(fr) ELSE partial_dist(fr, key[1], key[2])

\* the sum over the first m frames of the window of the frame's count in bin b
RECURSIVE SumCounts(_, _, _)
SumCounts(m, key, b) ==
    IF m = 0 THEN 0
    ELSE SumCounts(m - 1, key, b)
         + Histogram(use[m], PairsOf(use[m], key), args.cutoff, args.bins)[b]

\* the rational q is n / d
IsQuotient(q, n, d) == q[2] # 0 /\ q[1] * d = n * q[2]

\* C12: after the division each bin of the total and of every pair histogram is
\* the sum over the frames of the window of the frame's count in that bin,
\* divided by the number of frames of the window.
C12_FrameAveraging ==
    Finalized =>
        /\ \A b \in DOMAIN total_hist :
              IsQuotient(total_hist[b], SumCounts(Len(use), <<0, 0>>, b), Len(use))
        /\ \A key \in DOMAIN partial_hist : \A b \in DOMAIN partial_hist[key] :
              IsQuotient(partial_hist[key][b], SumCounts(Len(use), key, b), Len(use))

C12_Witness ==
    /\ pc = "averaged"
    /\ Len(use) = 2
    /\ Len(use[1].typ) = 1
    /\ Len(use[2].typ) = 2
    /\ total_hist[1] = <<1, 1>>
    /\ partial_hist[<<1, 1>>][1] = <<1, 1>>

\* g is count / (Na * (Nb / V) * 4 pi r^2 dr) for bin b, r = (b - 1/2) dr and
\* dr = cutoff / bins: pi * g = count * V * bins^3 / (Na * Nb * (2b-1)^2 * cutoff^3)
IsNormalized(g, count, b, Na, Nb, V) ==
    IsQuotient(g, count[1] * V * args.bins * args.bins * args.bins,
               count[2] * Na * Nb * (2 * b - 1) * (2 * b - 1)
                   * args.cutoff * args.cutoff * args.cutoff)

\* C13: g(r) of a pair in bin b is the frame-averaged count over
\* N_a*(N_b/V)*4*pi*r_b^2*dr with the species counts and the volume of the first
\* frame of the window, and the total uses that frame's atom count for both;
\* the counts and volumes of later frames do not enter.
C13_NormalizationReference ==
    (pc = "normalized" /\ args.cutoff > 0) =>
        /\ \A b \in DOMAIN g_total :
              IsNormalized(g_total[b], total_hist[b], b,
                           Len(use[1].typ), Len(use[1].typ), use[1].vol)
        /\ \A key \in DOMAIN partial_rdf : \A b \in DOMAIN partial_rdf[key] :
              IsNormalized(partial_rdf[key][b], partial_hist[key][b], b,
                           CountOf(use[1], key[1]), CountOf(use[1], key[2]), use[1].vol)

C13_Witness ==
    /\ pc = "normalized"
    /\ Len(use) = 2
    /\ use[1].vol = 64 /\ use[2].vol = 8
    /\ use[1].typ = <<1, 2>> /\ use[2].typ = <<2, 2>>
    /\ partial_hist[<<2, 2>>][1] = <<1, 1>>
    /\ partial_rdf[<<2, 2>>][1] = <<512, 27>>

\* what the output files held when this run started
TxtAtStart == IF prev = <<>> THEN <<>> ELSE prev[Len(prev)][2]

\* C14: the table is written only in the step after smoothing, with every frame
\* of the window accumulated and the curves normalized and smoothed; the figure
\* only after the table; a run that has not reached that step, or has failed
\* before it, has written nothing: the table is what it was when the run began.
C14_NoPartialOutput ==
    /\ [][txt' # txt =>
            /\ pc = "smoothed" /\ pc' = "written"
            /\ Len(use) >= 1 /\ k = Len(use)
            /\ g_total # <<>> \/ args.bins = 0]_vars
    /\ [][fig' # fig => (pc = "written" /\ pc' = "done")]_vars
    /\ [][(pc' = "failed" /\ pc # "written") => (txt' = TxtAtStart /\ fig' = fig)]_vars
    /\ [](pc \in {"read", "loaded", "mapped", "window", "accum", "averaged",
                  "normalized", "smoothed"} =>
            /\ txt = TxtAtStart
            /\ prev = <<>> => fig = <<>>)

C14_Witness ==
    /\ pc = "failed"
    /\ args.smooth = "moving" /\ args.window = 0
    /\ k = Len(use) /\ k >= 1
    /\ g_total # <<>>
    /\ txt = <<>> /\ fig = <<>>

\* the earlier runs of the script on this file
EarlierRuns == {prev[j] : j \in DOMAIN prev}

\* C15: a run on the same file with the same command line as an earlier run
\* writes the same table: the same header, the same rows, field for field.
C15_Determinism ==
    pc \in {"written", "done"} =>
        \A p \in EarlierRuns : p[1] = args => txt = p[2]

C15_Witness ==
    /\ pc = "written"
    /\ prev # <<>>
    /\ prev[1][1] = args
    /\ args.type_map # <<>>
    /\ txt = prev[1][2]
    /\ Len(txt[3]) = 8
    /\ txt[2][1][2] # Zero

\* the command line a differs from b in --type-map and in nothing else
OnlyTypeMapDiffers(a, b) ==
    a.type_map # b.type_map /\ [a EXCEPT !.type_map = b.type_map] = b

\* C16: a run whose command line differs from an earlier run's only in
\* --type-map writes the same data rows (radii and every g(r) value) in the
\* same column order; only the names of the header may differ.
C16_TypeMapLabelOnly ==
    pc \in {"written", "done"} =>
        \A p \in EarlierRuns :
            OnlyTypeMapDiffers(p[1], args) =>
                /\ txt[2] = p[2][2]
                /\ txt[1] = p[2][1]
                /\ Len(txt[3]) = Len(p[2][3])
                /\ txt[3][1] = p[2][3][1] /\ txt[3][2] = p[2][3][2]

C16_Witness ==
    /\ pc = "written"
    /\ prev # <<>>
    /\ prev[1][1].type_map = <<>>
    /\ args.type_map = <<Entry(2, "Sc"), Entry(1, "Al")>>
    /\ txt[3] = <<"r", "g_total", "g_Al-Al", "g_Al-Sc", "g_Sc-Sc">>
    /\ prev[1][2][3] = <<"r", "g_total", "g_1-1", "g_1-2", "g_2-2">>
    /\ txt[2] = prev[1][2][2]
    /\ txt[2][1][4] # Zero

\* C17: for a cutoff > 0 and B >= 1 bins the table has exactly B rows and the
\* radius of row i (0-based) is (i + 1/2)*cutoff/B, in every smoothing mode;
\* with cutoff 5 and 50 bins the first radius is 0.05.
C17_TableRowsAndRadii ==
    (pc \in {"written", "done"} /\ args.cutoff > 0 /\ args.bins >= 1) =>
        /\ Len(txt[2]) = args.bins
        /\ \A r \in 0..(args.bins - 1) :
              IsQuotient(txt[2][r + 1][1], (2 * r + 1) * args.cutoff, 2 * args.bins)
        /\ (args.cutoff = 5 /\ args.bins = 50) => txt[2][1][1] = <<1, 20>>

C17_Witness ==
    /\ pc = "written"
    /\ args.smooth = "moving"
    /\ args.cutoff = 5 /\ args.bins = 50
    /\ Len(txt[2]) = 50
    /\ txt[2][1][1] = <<1, 20>>
    /\ txt[2][50][1] = <<99, 20>>

\* the symbol the command line gives type t (its last entry for t), or the
\* type's number
NameOf(t) ==
    LET tm == args.type_map
        js == {j \in DOMAIN tm : tm[j].k = t}
    IN  IF js = {} THEN ToString(t)
        ELSE tm[CHOOSE j \in js : \A j2 \in js : j2 <= j].v

\* the pair p comes before the pair q: ascending ta, then ascending tb
PairBefore(p, q) == p[1] < q[1] \/ (p[1] = q[1] /\ p[2] < q[2])

\* C18: with T types in the first window frame the header holds 2 + T*(T+1)/2
\* names: r, g_total and one g_A-B for each unordered pair ta <= tb, by
\* ascending ta and then ascending tb; every row has as many fields as the
\* header, the pair values in the header's order.
C18_TableColumns ==
    pc \in {"written", "done"} =>
        LET types == Range(use[1].typ)
            T == Cardinality(types)
            prs == txt[1]
            rows == txt[2]
            hdr == txt[3]
        IN  /\ Len(hdr) = 2 + (T * (T + 1)) \div 2
            /\ hdr[1] = "r" /\ hdr[2] = "g_total"
            /\ Len(prs) = Len(hdr) - 2
            /\ {prs[c] : c \in DOMAIN prs} = {p \in types \X types : p[1] <= p[2]}
            /\ \A c, d \in DOMAIN prs : c < d => PairBefore(prs[c], prs[d])
            /\ \A c \in DOMAIN prs :
                  hdr[c + 2] = "g_" \o NameOf(prs[c][1]) \o "-" \o NameOf(prs[c][2])
            /\ \A b \in DOMAIN rows :
                  /\ Len(rows[b]) = Len(hdr)
                  /\ rows[b][2] = g_total[b]
                  /\ \A c \in DOMAIN prs : rows[b][c + 2] = partial_rdf[prs[c]][b]

C18_Witness ==
    /\ pc = "written"
    /\ use[1].typ = <<3, 1, 2>>
    /\ txt[3] = <<"r", "g_total", "g_Cu-Cu", "g_Cu-Se", "g_Cu-Ag",
                  "g_Se-Se", "g_Se-Ag", "g_Ag-Ag">>
    /\ Len(txt[2]) = 2
    /\ Len(txt[2][1]) = 8
    /\ txt[2][1][5] # Zero

\* C19 (as claimed): in every smoothing mode and for every width or sigma the
\* smoothed curves have one value per bin, as the curves they are computed from,
\* the radii are the bin centres, and in mode off the values are unchanged.
C19_SmoothingPreservesAxis ==
    pc \in {"smoothed", "written", "done"} =>
        /\ Len(g_total) = args.bins
        /\ \A key \in DOMAIN partial_rdf : Len(partial_rdf[key]) = args.bins
        /\ pc \in {"written", "done"} =>
              \A b \in DOMAIN txt[2] : txt[2][b][1] = BinCentre(b, args.cutoff, args.bins)
        /\ args.smooth = "off" =>
              g_total = rdf_normalize(total_hist, args.cutoff, args.bins,
                                      Len(use[1].typ), Len(use[1].typ), use[1].vol)

\* the sum of the first n bins of a histogram of whole counts
RECURSIVE SumBins(_, _)
SumBins(h, n) == IF n = 0 THEN 0 ELSE SumBins(h, n - 1) + h[n][1]

\* the index pairs of prs whose minimum-image distance d has 0 < d < cutoff
StrictlyInside(fr, prs, cutoff) ==
    {pr \in prs :
        LET d2 == PairDist2(fr.cell, fr.pos[pr[1]], fr.pos[pr[2]])
        IN  0 < d2 /\ 0 < cutoff /\ d2 < cutoff * cutoff}

\* C20: the counts one frame adds to the total histogram sum to the number of
\* ordered atom pairs of the frame whose minimum-image distance lies strictly
\* between 0 and the cutoff, and those it adds to a pair histogram to the number
\* of such pairs of an atom of ta and an atom of tb; a pair at the cutoff
\* exactly adds nothing.
C20_CutoffDiscard ==
    [][(pc = "accum" /\ pc' = "accum") =>
          LET fr == use[k + 1]
          IN  /\ SumBins(total_hist', args.bins) - SumBins(total_hist, args.bins)
                    = Cardinality(StrictlyInside(fr, AllPairs(fr), args.cutoff))
              /\ \A key \in DOMAIN partial_hist :
                    SumBins(partial_hist'[key], args.bins)
                        - SumBins(partial_hist[key], args.bins)
                    = Cardinality(StrictlyInside(fr, OfType(fr, key[1]) \X OfType(fr, key[2]),
                                                 args.cutoff))]_vars

C20_Witness ==
    /\ pc = "accum"
    /\ k = 1
    /\ args.cutoff = 2
    /\ use[1].pos = <<Sites[1], Sites[2], Sites[3]>>
    /\ PairDist2(use[1].cell, use[1].pos[2], use[1].pos[3]) = 4
    /\ SumBins(total_hist, args.bins) = 2

\* C21: once the trajectory is read, no step of main() (window selection,
\* accumulation, averaging, normalisation, smoothing, output) changes a frame:
\* the trajectory stays what the reader returned, and the window stays the
\* slice of it that was selected.
C21_FramesImmutable ==
    /\ [][(pc # "read" /\ pc' # "read") => frames' = frames]_vars
    /\ [][(Windowed /\ pc' # "read" /\ pc' # "failed") => use' = use]_vars
    /\ [](Windowed => \A m \in DOMAIN use : use[m] = frames[f0 + m])

C21_Witness ==
    /\ pc = "done"
    /\ Len(frames) = 1
    /\ use = frames
    /\ k = 1
    /\ frames[1].pos = << <<0, 0, 0>>, <<0, 7, 0>> >>
    /\ frames[1].typ = <<1, 1>>
    /\ frames[1].cell = <<4, 4, 4>> /\ frames[1].vol = 64
    /\ total_hist[2] = <<2, 1>>

(***************************************************************************)
(* src/Universal/Substitute-POSCAR.py.  A POSCAR line is the record of its *)
(* tokens, the words and the numbers apart; a line that has numbers begins *)
(* with a number.  amount is the rational <<n, d>>.                        *)
(***************************************************************************)
PLine(words, nums) == [words |-> words, nums |-> nums]

\* the first letter, lower-cased, of the words the model's files hold
Initial(w) ==
    CASE w \in {"Selective", "selective", "Sc"} -> "s"
      [] w \in {"Direct", "direct"} -> "d"
      [] w \in {"Cartesian", "comment"} -> "c"
      [] OTHER -> "?"

\* line.strip().lower().startswith(c)
StartsWith(l, c) == l.nums = <<>> /\ l.words # <<>> /\ Initial(Head(l.words)) = c

\* lines 58, 86-115: the exception read_poscar or detect_poscar_layout raises
DetectErr(ls) ==
    IF Len(ls) < 8 THEN "ValueError"
    ELSE IF At(ls, 6).words # <<>> THEN "ValueError"
    ELSE IF Len(At(ls, 5).words) + Len(At(ls, 5).nums) # Len(At(ls, 6).nums)
         THEN "ValueError"
    ELSE LET c == IF StartsWith(At(ls, 7), "s") THEN 8 ELSE 7
         IN  IF c >= Len(ls) THEN "IndexError"
             ELSE IF ~(StartsWith(At(ls, c), "d") \/ StartsWith(At(ls, c), "c"))
                  THEN "ValueError"
             ELSE ""

detect_poscar_layout(ls) ==
    LET selective == StartsWith(At(ls, 7), "s")
    IN  [species |-> At(ls, 5).words,
         counts |-> At(ls, 6).nums,
         coord_start |-> IF selective THEN 9 ELSE 8,
         selective |-> selective]

\* [elem] * n is empty for n <= 0
RECURSIVE build_atom_species_list(_, _)
build_atom_species_list(species, counts) ==
    IF species = <<>> \/ counts = <<>> THEN <<>>
    ELSE [a \in 1..Max(0, Head(counts)) |-> Head(species)]
         \o build_atom_species_list(Tail(species), Tail(counts))

RECURSIVE SumSeq(_)
SumSeq(ns) == IF ns = <<>> THEN 0 ELSE Head(ns) + SumSeq(Tail(ns))

\* line 146
SrcIndices(atom_species, src_element) ==
    {a \in DOMAIN atom_species : atom_species[a] = src_element}

\* lines 153-163: Python's round() goes to the even neighbour on a tie.  The
\* amounts of the inputs are quarters and halves, which a double holds exactly,
\* so n_src * amount is the exact product
NReplace(n_src, amount, mode) ==
    IF mode = "frac"
    THEN LET r == RoundHalfEven(n_src * amount[1], amount[2])
         IN  IF amount[1] > 0 /\ r = 0 THEN 1 ELSE r
    ELSE RoundHalfEven(amount[1], amount[2])

\* lines 148-170
SubstituteErr(atom_species, a) ==
    LET n_src == Cardinality(SrcIndices(atom_species, a.src_element))
    IN  IF n_src = 0 THEN "ValueError"
        ELSE IF a.mode = "frac"
        THEN IF a.amount[1] < 0 \/ a.amount[1] > a.amount[2] THEN "ValueError" ELSE ""
        ELSE IF NReplace(n_src, a.amount, a.mode) < 0 THEN "ValueError"
        ELSE IF NReplace(n_src, a.amount, a.mode) > n_src THEN "ValueError"
        ELSE ""

\* lines 172-182, for the indices rng.sample chose
substitute_atoms(atom_species, chosen, dst_element) ==
    [a \in DOMAIN atom_species |->
        IF a \in chosen THEN dst_element ELSE atom_species[a]]

\* atom_species.count(elem)
CountIn(atom_species, elem) ==
    Cardinality({a \in DOMAIN atom_species : atom_species[a] = elem})

RECURSIVE SeqOfSet(_)
SeqOfSet(S) ==
    IF S = {} THEN <<>>
    ELSE LET e == CHOOSE x \in S : TRUE IN <<e>> \o SeqOfSet(S \ {e})

\* (every species of the original order kept, with whatever count it has)
rebuild_keeping_empty(atom_species, original_order) ==
    LET fresh == Range(atom_species) \ Range(original_order)
        final_species == original_order \o SeqOfSet(fresh)
    IN  <<final_species,
          [j \in DOMAIN final_species |-> CountIn(atom_species, final_species[j])]>>

\* lines 201-216: <<final_species, final_counts>>
rebuild_species_counts(atom_species, original_order) ==
    LET present(elem) == elem \in Range(atom_species)
        fresh == Range(atom_species) \ Range(original_order)
        final_species == SelectSeq(original_order, present) \o SeqOfSet(fresh)
    IN  <<final_species,
          [j \in DOMAIN final_species |-> CountIn(atom_species, final_species[j])]>>

\* lines 242-244: the coordinate lines of the atoms that carry elem
RECURSIVE LinesOf(_, _, _)
LinesOf(elem, atom_species, coord_lines) ==
    IF atom_species = <<>> \/ coord_lines = <<>> THEN <<>>
    ELSE (IF Head(atom_species) = elem THEN <<Head(coord_lines)>> ELSE <<>>)
         \o LinesOf(elem, Tail(atom_species), Tail(coord_lines))

\* lines 240-244
RECURSIVE Regrouped(_, _, _)
Regrouped(final_species, atom_species, coord_lines) ==
    IF final_species = <<>> THEN <<>>
    ELSE LinesOf(Head(final_species), atom_species, coord_lines)
         \o Regrouped(Tail(final_species), atom_species, coord_lines)

\* lines 230-247
ReorderErr(ls, coord_start, atom_species_old, atom_species, final_species) ==
    LET n_atoms == Len(atom_species_old)
        coord_lines == PySlice(ls, coord_start, coord_start + n_atoms)
    IN  IF Len(coord_lines) # n_atoms THEN "ValueError"
        ELSE IF Len(Regrouped(final_species, atom_species, coord_lines)) # n_atoms
             THEN "RuntimeError"
        ELSE ""

\* lines 250-252
reorder_coordinates(ls, coord_start, atom_species_old, atom_species, final_species) ==
    LET n_atoms == Len(atom_species_old)
        coord_lines == PySlice(ls, coord_start, coord_start + n_atoms)
    IN  SubSeq(ls, 1, coord_start)
        \o Regrouped(final_species, atom_species, coord_lines)
        \o SubSeq(ls, coord_start + n_atoms + 1, Len(ls))

\* main, lines 264-267
AtomSpeciesOld ==
    LET d == detect_poscar_layout(lines)
    IN  build_atom_species_list(d.species, d.counts)

\* main, lines 263-280: what ends the run before any atom is chosen
SubErr ==
    IF DetectErr(lines) # "" THEN DetectErr(lines)
    ELSE IF Len(AtomSpeciesOld) # SumSeq(detect_poscar_layout(lines).counts)
         THEN "ValueError"
    ELSE SubstituteErr(AtomSpeciesOld, args)

\* main, lines 283-298
WriteErr ==
    LET d == detect_poscar_layout(lines)
        final == rebuild_species_counts(atom_species_new, d.species)
    IN  ReorderErr(lines, d.coord_start, AtomSpeciesOld, atom_species_new, final[1])

NewLines ==
    LET d == detect_poscar_layout(lines)
        final == rebuild_species_counts(atom_species_new, d.species)
        with_counts == [lines EXCEPT ![6] = PLine(final[1], <<>>),
                                     ![7] = PLine(<<>>, final[2])]
    IN  reorder_coordinates(with_counts, d.coord_start, AtomSpeciesOld,
                            atom_species_new, final[1])

SubStart(inp) ==
    /\ lines = inp.lines
    /\ args = inp.args
    /\ pc = "sub_read"
    /\ err = ""
    /\ i = 0
    /\ frames = <<>>
    /\ RdfIdle /\ SubIdle /\ LeoIdle /\ PdosIdle /\ SplitIdle

\* lines 314-318: the exception is reported and the script exits with 1
SubstituteFail ==
    /\ pc = "sub_read"
    /\ SubErr # ""
    /\ Raise(SubErr)
    /\ UNCHANGED <<lines, args, i, frames, rdf_vars, other_vars>>

\* lines 263-280: rng.sample picks n_replace distinct atoms of the source element
Substitute ==
    /\ pc = "sub_read"
    /\ SubErr = ""
    /\ LET src == SrcIndices(AtomSpeciesOld, args.src_element)
           n_replace == NReplace(Cardinality(src), args.amount, args.mode)
       IN  \E chosen \in SUBSET src :
               /\ Cardinality(chosen) = n_replace
               /\ atom_species_new' =
                      substitute_atoms(AtomSpeciesOld, chosen, args.dst_element)
    /\ pc' = "substituted"
    /\ UNCHANGED <<lines, args, err, i, frames, rdf_vars, new_lines,
                   leo_vars, pdos_vars, split_vars>>

ReorderFail ==
    /\ pc = "substituted"
    /\ WriteErr # ""
    /\ Raise(WriteErr)
    /\ UNCHANGED <<lines, args, i, frames, rdf_vars, other_vars>>

\* lines 283-303
WritePoscar ==
    /\ pc = "substituted"
    /\ WriteErr = ""
    /\ new_lines' = NewLines
    /\ pc' = "sub_done"
    /\ UNCHANGED <<lines, args, err, i, frames, rdf_vars, atom_species_new,
                   leo_vars, pdos_vars, split_vars>>

NextSub ==
    \/ SubstituteFail
    \/ Substitute
    \/ ReorderFail
    \/ WritePoscar

\* POSCAR files: up to MaxSpecies species of up to MaxCount atoms each; the
\* coordinate line of atom a is the line of the number a
MaxSpecies == 3

MaxCount == 2

Elements == <<"Al", "N", "Sc">>

Preamble ==
    <<PLine(<<"comment">>, <<>>), PLine(<<>>, <<1>>), PLine(<<>>, <<4, 0, 0>>),
      PLine(<<>>, <<0, 4, 0>>), PLine(<<>>, <<0, 0, 4>>)>>

Poscar(species, counts, head, ncoord) ==
    Preamble \o <<PLine(species, <<>>), PLine(<<>>, counts)>> \o head
    \o [a \in 1..ncoord |-> PLine(<<>>, <<a>>)]

CoordHeads ==
    {<<PLine(<<"Direct">>, <<>>)>>,
     <<PLine(<<"Selective">>, <<>>), PLine(<<"Cartesian">>, <<>>)>>}

SpeciesLists ==
    UNION {[1..n -> {Elements[1], Elements[2], Elements[3]}] : n \in 1..MaxSpecies}

Amounts ==
    {[mode |-> "frac", amount |-> <<n, 4>>] : n \in 0..5}
    \cup {[mode |-> "count", amount |-> <<n, 2>>] : n \in {-2, 0, 1, 2, 3, 4, 6}}

SubArgs(src, dst, am) ==
    [src_element |-> src, dst_element |-> dst, amount |-> am.amount, mode |-> am.mode]

\* well-formed files with distinct species, and files that are not: a species
\* listed twice, a coordinate block one line short or one line long, a
\* negative count, no coordinate-system line
SubInputs ==
    {[lines |-> Poscar(sp, cn, h, SumSeq(cn)), args |-> SubArgs(src, dst, am)] :
        sp \in {x \in SpeciesLists : Len(x) <= 2 /\ Cardinality(Range(x)) = Len(x)},
        cn \in UNION {[1..n -> 0..MaxCount] : n \in 1..2},
        h \in CoordHeads, src \in {"Al", "N"}, dst \in {"N", "Sc"}, am \in Amounts}
    \cup {[lines |-> Poscar(sp, [j \in DOMAIN sp |-> 1], h, Len(sp) + extra),
           args |-> SubArgs("Al", dst, am)] :
        sp \in SpeciesLists, h \in CoordHeads, extra \in {-1, 0, 1},
        dst \in {"N", "Sc"}, am \in {x \in Amounts : x.amount[1] \in {0, 4}}}
    \cup {[lines |-> Poscar(<<"Al", "N">>, <<2, -1>>, <<PLine(<<"Direct">>, <<>>)>>, 1),
           args |-> SubArgs("Al", "Sc", [mode |-> "frac", amount |-> <<1, 1>>])],
          [lines |-> Poscar(<<"Al">>, <<1>>, <<>>, 1),
           args |-> SubArgs("Al", "Sc", [mode |-> "frac", amount |-> <<1, 1>>])],
          [lines |-> Poscar(<<"Al">>, <<1>>, <<PLine(<<"Selective">>, <<>>)>>, 0),
           args |-> SubArgs("Al", "Sc", [mode |-> "frac", amount |-> <<1, 1>>])]}

InitSub == \E inp \in SubInputs : SubStart(inp)

SpecSub == InitSub /\ [][NextSub]_vars

\* r is n/d rounded to the nearest integer, a tie going to the even one
IsRounded(r, n, d) ==
    /\ 2 * Abs(n - r * d) <= d
    /\ 2 * Abs(n - r * d) = d => r % 2 = 0

\* the atoms whose species the substitution changed
Relabelled ==
    {a \in DOMAIN atom_species_new : atom_species_new[a] # AtomSpeciesOld[a]}

\* the coordinate lines of the input, and the block written in their place
CoordLinesIn ==
    LET d == detect_poscar_layout(lines)
    IN  PySlice(lines, d.coord_start, d.coord_start + Len(AtomSpeciesOld))

CoordLinesOut ==
    LET d == detect_poscar_layout(lines)
    IN  PySlice(new_lines, d.coord_start, d.coord_start + Len(AtomSpeciesOld))

Occurrences(ls, l) == Cardinality({a \in DOMAIN ls : ls[a] = l})

\* C22: a substitution that succeeds conserves the atoms.  The counts written
\* sum to the input's atom count and none of them is 0; the atoms relabelled
\* all went from src to dst and their number is round(n_src * amount) in frac
\* mode (1 when that is 0 and amount > 0) and the given number in count mode;
\* the coordinate block written is a permutation of the input's coordinate
\* lines, and the block of the j-th listed species holds exactly the lines of
\* the atoms that carry that species after the substitution.  Nothing else of
\* the file changes.
C22_SubstitutionConservesAtoms ==
    pc = "sub_done" =>
        LET d == detect_poscar_layout(lines)
            n_atoms == SumSeq(d.counts)
            n_src == CountIn(AtomSpeciesOld, args.src_element)
            final_species == At(new_lines, 5).words
            final_counts == At(new_lines, 6).nums
            Offset(j) == SumSeq(SubSeq(final_counts, 1, j - 1))
        IN  /\ Len(final_species) = Len(final_counts)
            /\ SumSeq(final_counts) = n_atoms
            /\ \A j \in DOMAIN final_counts : final_counts[j] > 0
            /\ Len(atom_species_new) = n_atoms
            /\ \A a \in Relabelled :
                   /\ AtomSpeciesOld[a] = args.src_element
                   /\ atom_species_new[a] = args.dst_element
            /\ args.src_element # args.dst_element =>
                   IF args.mode = "frac"
                   THEN LET r == Cardinality(Relabelled)
                        IN  \/ IsRounded(r, n_src * args.amount[1], args.amount[2])
                               /\ (args.amount[1] > 0 => r >= 1)
                            \/ r = 1 /\ args.amount[1] > 0
                               /\ IsRounded(0, n_src * args.amount[1], args.amount[2])
                   ELSE IsRounded(Cardinality(Relabelled), args.amount[1], args.amount[2])
            /\ Len(new_lines) = Len(lines)
            /\ \A l \in Range(CoordLinesIn) \cup Range(CoordLinesOut) :
                   Occurrences(CoordLinesOut, l) = Occurrences(CoordLinesIn, l)
            /\ \A j \in DOMAIN final_species :
                   SubSeq(CoordLinesOut, Offset(j) + 1, Offset(j) + final_counts[j])
                       = LinesOf(final_species[j], atom_species_new, CoordLinesIn)
            /\ \A j \in DOMAIN lines :
                   (j \notin {6, 7}
                    /\ (j <= d.coord_start \/ j > d.coord_start + n_atoms))
                       => new_lines[j] = lines[j]

\* one of two Al atoms becomes Sc: Sc is listed last and the first coordinate
\* line moves behind the others
C22_Witness ==
    /\ pc = "sub_done"
    /\ At(lines, 5).words = <<"Al", "N">>
    /\ At(lines, 6).nums = <<2, 1>>
    /\ args.mode = "frac" /\ args.amount = <<2, 4>>
    /\ atom_species_new = <<"Sc", "Al", "N">>
    /\ At(new_lines, 5).words = <<"Al", "N", "Sc">>
    /\ At(new_lines, 6).nums = <<1, 1, 1>>
    /\ CoordLinesOut = <<PLine(<<>>, <<2>>), PLine(<<>>, <<3>>), PLine(<<>>, <<1>>)>>

(***************************************************************************)
(* src/Leo.py, the dispatcher.  build_parser registers one sub-command per *)
(* entry of TOOLS, main parses sys.argv and calls the handler bound to the *)
(* sub-command.  A script of None is "", copy_files of None is <<>>.       *)
(* parse_args is argparse's: the sub-command's one positional, args, has   *)
(* nargs=REMAINDER and takes everything from the first argument that is    *)
(* not an option; an option met before that is argparse's own (-h, --help) *)
(* or, not being declared, is left over and makes parse_args exit with 2.  *)
(***************************************************************************)
ToolEntry(g, c, script, copy_files) ==
    [group |-> g, command |-> c, script |-> script, copy_files |-> copy_files]

\* lines 40-171: TOOLS, five of its entries, group by group
TOOLS ==
    << <<ToolEntry("system", "update", "", <<>>)>>,
       <<ToolEntry("universal", "substitute", "Universal/Substitute-POSCAR.py", <<>>),
         ToolEntry("universal", "replicate", "Universal/POSCAR2SUPER-X.py",
                   <<"NEP/POSCAR2SUPER-X.py">>)>>,
       <<ToolEntry("nep", "split", "NEP/Exyz-random-select.py",
                   <<"NEP/Exyz-random-select.py">>)>>,
       <<ToolEntry("MD", "rdf", "MD/RDF.py", <<>>)>> >>

\* lines 338-347 and 370-375: the handler of a sub-command, with the values
\* its default arguments held when the lambda was made
Handler(e) ==
    IF e.group = "system" /\ e.command = "update"
    THEN [run |-> "run_update", script_rel |-> "", copy_files |-> <<>>]
    ELSE [run |-> "run_script", script_rel |-> e.script, copy_files |-> e.copy_files]

NoFunc == [run |-> "", script_rel |-> "", copy_files |-> <<>>]

IsHelp(t) == t \in {"-h", "--help"}

\* argparse: a string that starts with "-", other than "-", "--" and a negative
\* number, is an option
IsOption(t) == t \in {"-h", "--help", "--fmt", "-x"}

Registered(ps, g, c) == \E j \in DOMAIN ps : ps[j].group = g /\ ps[j].command = c

FuncOf(ps, g, c) ==
    ps[CHOOSE j \in DOMAIN ps : ps[j].group = g /\ ps[j].command = c].func

\* the options that precede the first argument that is not one
RECURSIVE LeadingOptions(_)
LeadingOptions(rest) ==
    IF rest = <<>> \/ ~IsOption(Head(rest)) THEN <<>>
    ELSE <<Head(rest)>> \o LeadingOptions(Tail(rest))

\* parser.parse_args() of line 390: the exit status when argparse exits (0
\* after printing a help text, 2 after an error), -1 when it returns
ParseExit(ps, av) ==
    IF IsHelp(av[1]) THEN 0
    ELSE IF ~\E j \in DOMAIN ps : ps[j].group = av[1] THEN 2
    ELSE IF Len(av) = 1 THEN -1
    ELSE IF IsHelp(av[2]) THEN 0
    ELSE IF ~Registered(ps, av[1], av[2]) THEN 2
    ELSE LET rest == SubSeq(av, 3, Len(av))
             opts == LeadingOptions(rest)
         IN  IF FuncOf(ps, av[1], av[2]).run = "run_update"
             THEN IF \E j \in DOMAIN rest : IsHelp(rest[j]) THEN 0
                  ELSE IF rest # <<>> THEN 2
                  ELSE -1
             ELSE IF \E j \in DOMAIN opts : IsHelp(opts[j]) THEN 0
             ELSE IF opts # <<>> THEN 2
             ELSE -1

\* the namespace parse_args returns
Namespace(ps, av) ==
    IF Len(av) = 1
    THEN [group |-> av[1], command |-> "", args |-> <<>>, func |-> NoFunc]
    ELSE [group |-> av[1], command |-> av[2],
          args |-> IF FuncOf(ps, av[1], av[2]).run = "run_update"
                   THEN <<>> ELSE SubSeq(av, 3, Len(av)),
          func |-> FuncOf(ps, av[1], av[2])]

LeoStart(inp) ==
    /\ tools = inp.tools
    /\ argv = inp.argv
    /\ parser = <<>>
    /\ cmd = <<>>
    /\ lines = <<>>
    /\ args = <<>>
    /\ pc = "leo_build"
    /\ err = ""
    /\ i = 0
    /\ frames = <<>>
    /\ RdfIdle /\ SubIdle /\ PdosIdle /\ SplitIdle

\* lines 336-375: one pass of the inner loop of build_parser
Register ==
    /\ pc = "leo_build"
    /\ i < Len(tools)
    /\ parser' = Append(parser, [group |-> At(tools, i).group,
                                 command |-> At(tools, i).command,
                                 func |-> Handler(At(tools, i))])
    /\ i' = i + 1
    /\ UNCHANGED <<lines, args, pc, err, frames, rdf_vars, tools, argv, cmd,
                   sub_vars, pdos_vars, split_vars>>

\* lines 386-388: leo without arguments prints the overview
Overview ==
    /\ pc = "leo_build"
    /\ i = Len(tools)
    /\ argv = <<>>
    /\ pc' = "leo_done"
    /\ UNCHANGED <<lines, args, err, i, frames, rdf_vars, other_vars>>

\* line 390, argparse printing a help text or an error and exiting
ParseExits ==
    /\ pc = "leo_build"
    /\ i = Len(tools)
    /\ argv # <<>>
    /\ ParseExit(parser, argv) # -1
    /\ pc' = "leo_exit"
    /\ err' = IF ParseExit(parser, argv) = 0 THEN "SystemExit(0)" ELSE "SystemExit(2)"
    /\ UNCHANGED <<lines, args, i, frames, rdf_vars, other_vars>>

\* line 390
Parse ==
    /\ pc = "leo_build"
    /\ i = Len(tools)
    /\ argv # <<>>
    /\ ParseExit(parser, argv) = -1
    /\ args' = Namespace(parser, argv)
    /\ pc' = "leo_parsed"
    /\ UNCHANGED <<lines, err, i, frames, rdf_vars, other_vars>>

\* lines 392-393 and 176-199: run_script copies copy_files and runs the script
RunScript ==
    /\ pc = "leo_parsed"
    /\ args.func.run = "run_script"
    /\ cmd' = [copy_files |-> args.func.copy_files,
               script |-> args.func.script_rel,
               extra_args |-> args.args]
    /\ pc' = "leo_done"
    /\ UNCHANGED <<lines, args, err, i, frames, rdf_vars, tools, parser, argv,
                   sub_vars, pdos_vars, split_vars>>

\* lines 392-393 and 218-246: run_update resets the repository
RunUpdate ==
    /\ pc = "leo_parsed"
    /\ args.func.run = "run_update"
    /\ cmd' = [copy_files |-> <<>>, script |-> "git", extra_args |-> <<"reset", "--hard">>]
    /\ pc' = "leo_done"
    /\ UNCHANGED <<lines, args, err, i, frames, rdf_vars, tools, parser, argv,
                   sub_vars, pdos_vars, split_vars>>

\* lines 394-396: no sub-command was named
NoCommand ==
    /\ pc = "leo_parsed"
    /\ args.func.run = ""
    /\ pc' = "leo_done"
    /\ UNCHANGED <<lines, args, err, i, frames, rdf_vars, other_vars>>

NextLeo ==
    \/ Register
    \/ Overview
    \/ ParseExits
    \/ Parse
    \/ RunScript
    \/ RunUpdate
    \/ NoCommand

\* every order of the groups and of the commands inside each group
PermsOf(s) ==
    {[j \in DOMAIN s |-> s[q[j]]] :
        q \in {f \in [DOMAIN s -> DOMAIN s] :
                 \A a, b \in DOMAIN s : f[a] = f[b] => a = b}}

RegistrationOrders ==
    {Flatten(gs) :
        gs \in UNION {PermsOf(c) :
                 c \in {x \in [DOMAIN TOOLS -> UNION {PermsOf(TOOLS[g]) : g \in DOMAIN TOOLS}] :
                          \A g \in DOMAIN TOOLS : x[g] \in PermsOf(TOOLS[g])}}}

\* what follows the sub-command on the command line
RestLists ==
    {<<>>, <<"a">>, <<"a", "b">>, <<"b", "a">>, <<"dump.xyz", "--fmt", "lammps">>,
     <<"--fmt", "lammps", "dump.xyz">>, <<"-h">>, <<"a", "-h">>, <<"--fmt", "-h">>,
     <<"--", "a">>, <<"-5">>}

Entries == Range(Flatten(TOOLS))

CommandLines ==
    {<<e.group, e.command>> \o rest : e \in Entries, rest \in RestLists}
    \cup {<<>>, <<"MD">>, <<"MD", "bogus">>, <<"bogus">>, <<"-h">>, <<"nep", "-h">>}

LeoInputs == {[tools |-> ts, argv |-> av] : ts \in RegistrationOrders, av \in CommandLines}

InitLeo == \E inp \in LeoInputs : LeoStart(inp)

SpecLeo == InitLeo /\ [][NextLeo]_vars

\* the command line names an entry of TOOLS other than system/update
NamesScript ==
    /\ Len(argv) >= 2
    /\ \E e \in Entries :
           e.group = argv[1] /\ e.command = argv[2] /\ ~(e.group = "system" /\ e.command = "update")

NamedEntry == CHOOSE e \in Entries : e.group = argv[1] /\ e.command = argv[2]

\* C23: for every entry of TOOLS other than system/update, in whatever order
\* the entries were registered, leo <group> <command> <args...> ends with
\* run_script having copied that entry's copy_files and run that entry's
\* script with <args...> unchanged and in order: parse_args neither exits nor
\* binds another entry's handler.
C23_DispatcherRouting ==
    NamesScript =>
        /\ pc # "leo_exit"
        /\ pc = "leo_parsed" =>
               /\ args.func = [run |-> "run_script", script_rel |-> NamedEntry.script,
                               copy_files |-> NamedEntry.copy_files]
               /\ args.args = SubSeq(argv, 3, Len(argv))
        /\ pc = "leo_done" =>
               cmd = [copy_files |-> NamedEntry.copy_files,
                      script |-> NamedEntry.script,
                      extra_args |-> SubSeq(argv, 3, Len(argv))]

\* what does hold: when parse_args returns, the handler bound and run is the
\* named entry's, with the arguments unchanged; it exits only on a leading
\* option
BoundWhenParsed ==
    NamesScript =>
        /\ pc = "leo_parsed" =>
               /\ args.func = [run |-> "run_script", script_rel |-> NamedEntry.script,
                               copy_files |-> NamedEntry.copy_files]
               /\ args.args = SubSeq(argv, 3, Len(argv))
        /\ pc = "leo_done" =>
               cmd = [copy_files |-> NamedEntry.copy_files,
                      script |-> NamedEntry.script,
                      extra_args |-> SubSeq(argv, 3, Len(argv))]
        /\ pc = "leo_exit" => IsOption(argv[3])

(***************************************************************************)
(* The box of a block: src/MD/RDF.py, lines 118-166                        *)
(***************************************************************************)
\* box lines lo hi and lo hi tilt
MaxTilt == 2

BoxLinesOf(los, edges) ==
    {<<lo, lo + e>> : lo \in los, e \in edges}
    \cup {<<lo, lo + e, t>> : lo \in los, e \in edges, t \in (-1)..MaxTilt}

\* two atoms, one of them outside the box; the last box is upside down in x
BoxInputs ==
    {Once(MkBlock(0, <<bx, by, bz>>, StdCols,
                  << <<1, 1, 1, 2, 3>>, <<2, 1, 0, 1, -1>> >>), DefaultArgs) :
        bx \in BoxLinesOf({-1, 0, 1}, {3, 4}),
        by \in BoxLinesOf({0, 1}, {4}),
        bz \in BoxLinesOf({-1}, {3, 4})}
    \cup {Once(MkBlock(0, <<bx, <<0, 4>>, <<0, 4, 1>>>>, StdCols,
                       << <<1, 1, 1, 2, 3>>, <<2, 1, 0, 1, -1>> >>), DefaultArgs) :
            bx \in {<<4, 0>>, <<4, 1, 2>>}}

InitBox == \E inp \in BoxInputs \cup CommonInputs : Start(inp)

SpecBox == InitBox /\ [][Next]_vars

\* the 0-based index of the m-th line of ls that opens a block
RECURSIVE NthTimestep(_, _, _)
NthTimestep(ls, m, from) ==
    IF At(ls, from).hdr = "TIMESTEP"
    THEN IF m = 1 THEN from ELSE NthTimestep(ls, m - 1, from + 1)
    ELSE NthTimestep(ls, m, from + 1)

ColValue(name, atom) ==
    CASE name = "id" -> atom.id
      [] name = "type" -> atom.type
      [] name = "x" -> atom.pos[1]
      [] name = "y" -> atom.pos[2]
      [] name = "z" -> atom.pos[3]
      [] name = "vx" -> 7
      [] name = "xs" -> 8
      [] OTHER -> 9

ColRow(cols, atom) == [c \in DOMAIN cols |-> ColValue(cols[c], atom)]

ColAtoms ==
    <<[id |-> 5, type |-> 2, pos |-> <<1, 2, 3>>],
      [id |-> 6, type |-> 1, pos |-> <<3, 0, 1>>]>>

ColBlock(cols) ==
    MkBlock(0, CubicBox(0, Edge), cols, [r \in DOMAIN ColAtoms |-> ColRow(cols, ColAtoms[r])])

\* every order of id type x y z, every order of them with one more column,
\* and some headers with two and three more
ColHeaders ==
    PermsOf(StdCols)
    \cup PermsOf(StdCols \o <<"xs">>)
    \cup {<<"vx", "Type">> \o StdCols, StdCols \o <<"X", "vx">>,
          <<"z", "vx", "y", "xs", "x", "Type", "type", "id">>,
          <<"xs", "ys", "zs", "type", "z", "y", "x">>}

ColFiles == {ColBlock(cols) : cols \in ColHeaders}

ColInputs == {Once(f, DefaultArgs) : f \in ColFiles}

InitCols == \E inp \in ColInputs \cup CommonInputs : Start(inp)

SpecCols == InitCols /\ [][Next]_vars

\* the frame of ColAtoms in the box of edge Edge at the origin
ColFrame ==
    [pos |-> <<ColAtoms[1].pos, ColAtoms[2].pos>>,
     typ |-> <<ColAtoms[1].type, ColAtoms[2].type>>,
     cell |-> <<Edge, Edge, Edge>>,
     vol |-> Edge * Edge * Edge]

\* C25: the type and the position of every atom come from the columns whose
\* header tokens are exactly type, x, y and z, wherever those columns stand:
\* the frame parsed is the same for every order of the columns (the rows
\* ordered accordingly) and for every set of further columns of other names.
C25_ColumnLookup ==
    /\ \A m \in DOMAIN frames :
           LET i0 == NthTimestep(lines, m, 0)
               cols == At(lines, i0 + 8).cols
               lo(c) == At(lines, i0 + 4 + c).toks[1]
               fr == frames[m]
           IN  \A r \in DOMAIN fr.pos : \A c \in DOMAIN cols :
                   LET v == At(lines, i0 + 8 + r).toks[c]
                   IN  /\ cols[c] = "type" => fr.typ[r] = v
                       /\ cols[c] = "x" => fr.pos[r][1] = v - lo(1)
                       /\ cols[c] = "y" => fr.pos[r][2] = v - lo(2)
                       /\ cols[c] = "z" => fr.pos[r][3] = v - lo(3)
    /\ (lines \in ColFiles /\ pc \notin {"read", "failed"}) => frames = <<ColFrame>>
    /\ (lines \in ColFiles) => pc # "failed"

\* the columns in the order z vx y xs x Type type id
C25_Witness ==
    /\ pc = "done"
    /\ At(lines, 8).cols = <<"z", "vx", "y", "xs", "x", "Type", "type", "id">>
    /\ At(lines, 9).toks = <<3, 7, 2, 8, 1, 9, 2, 5>>
    /\ frames = <<ColFrame>>
    /\ frames[1].typ = <<2, 1>>
    /\ frames[1].pos[1] = <<1, 2, 3>>

(***************************************************************************)
(* read_xdatcar: src/MD/RDF.py, lines 41-92, and the xdatcar branch of     *)
(* main, lines 252-254.  The lines are the records of the dump lines: a    *)
(* numeric line is Data, the symbol line holds its symbols in cols, the    *)
(* line that opens a configuration has hdr "Direct" or "Cartesian".  The   *)
(* lattices of the model are diagonal, so that a frame's cell is the       *)
(* triple of its diagonal, as in the frames of the dump reader.            *)
(***************************************************************************)
Symbols(syms) == [hdr |-> "SYMBOLS", cols |-> syms, toks |-> <<>>]

\* lines 52-57
is_int_list(l) == l.hdr = ""

\* l.lower().startswith("direct") or l.lower().startswith("cart")
OpensConfiguration(l) == l.hdr \in {"Direct", "Cartesian"}

\* lines 59-66: the index of the count line
CountsIndex(ls) == IF is_int_list(At(ls, 5)) THEN 5 ELSE 6

\* lines 69-72
LastConfiguration(ls) ==
    LET S == {j \in 0..(Len(ls) - 1) : OpensConfiguration(At(ls, j))}
    IN  IF S = {} THEN -1 ELSE CHOOSE j \in S : \A j2 \in S : j2 <= j

\* (types counted from 0)
RECURSIVE ExpandCountsFromZero(_, _)
ExpandCountsFromZero(counts, n) ==
    IF n > Len(counts) THEN <<>>
    ELSE [a \in 1..Max(0, counts[n]) |-> n - 1] \o ExpandCountsFromZero(counts, n + 1)

\* lines 81-83: types += [i + 1] * c, from the n-th count on
RECURSIVE ExpandCounts(_, _)
ExpandCounts(counts, n) ==
    IF n > Len(counts) THEN <<>>
    ELSE [a \in 1..Max(0, counts[n]) |-> n] \o ExpandCounts(counts, n + 1)

RECURSIVE CoordsErr(_, _, _, _)
CoordsErr(ls, last, N, j) ==
    IF j >= N THEN ""
    ELSE IF last + 1 + j >= Len(ls) THEN "IndexError"
    ELSE IF At(ls, last + 1 + j).hdr # "" THEN "ValueError"
    ELSE IF Len(At(ls, last + 1 + j).toks) < 3 THEN "ValueError"
    ELSE CoordsErr(ls, last, N, j + 1)

\* the exception read_xdatcar raises ("" when it returns)
XdatcarErr(ls) ==
    IF Len(ls) < 2 THEN "IndexError"
    ELSE IF ~IsIntLine(At(ls, 1)) THEN "ValueError"
    ELSE IF Len(ls) < 5 THEN "IndexError"
    ELSE IF \E j \in 2..4 : At(ls, j).hdr # "" \/ Len(At(ls, j).toks) # 3 THEN "ValueError"
    ELSE IF Len(ls) < 6 THEN "IndexError"
    ELSE IF CountsIndex(ls) >= Len(ls) THEN "IndexError"
    ELSE IF ~is_int_list(At(ls, CountsIndex(ls))) THEN "ValueError"
    ELSE IF LastConfiguration(ls) = -1 THEN "TypeError"
    ELSE LET last == LastConfiguration(ls)
             N == SumSeq(At(ls, CountsIndex(ls)).toks)
         IN  IF CoordsErr(ls, last, N, 0) # "" THEN CoordsErr(ls, last, N, 0)
             ELSE IF N <= 0 /\ At(ls, last).hdr = "Direct" THEN "ValueError"
             ELSE ""

\* lines 45-49 and 74-92: the frame (pos, types, lattice, volume)
XdatcarFrame(ls) ==
    LET scale == At(ls, 1).toks[1]
        cell == <<At(ls, 2).toks[1] * scale, At(ls, 3).toks[2] * scale,
                  At(ls, 4).toks[3] * scale>>
        counts == At(ls, CountsIndex(ls)).toks
        last == LastConfiguration(ls)
        N == SumSeq(counts)
        coords(j) == SubSeq(At(ls, last + j).toks, 1, 3)
    IN  [pos |-> [j \in 1..N |->
                    IF At(ls, last).hdr = "Direct"
                    THEN <<coords(j)[1] * cell[1], coords(j)[2] * cell[2],
                           coords(j)[3] * cell[3]>>
                    ELSE <<coords(j)[1] * scale, coords(j)[2] * scale,
                           coords(j)[3] * scale>>],
         typ |-> ExpandCounts(counts, 1),
         cell |-> cell,
         vol |-> Abs(cell[1] * cell[2] * cell[3])]

\* lines 252-254
ReadXdatcar ==
    /\ pc = "read"
    /\ args.fmt = "xdatcar"
    /\ XdatcarErr(lines) = ""
    /\ frames' = <<XdatcarFrame(lines)>>
    /\ pc' = "loaded"
    /\ UNCHANGED <<other_vars, lines, args, later, prev, err, i, tmap, f0, f1, use,
                   all_types, total_hist, partial_hist, k, g_total, partial_rdf,
                   txt, fig>>

ReadXdatcarFail ==
    /\ pc = "read"
    /\ args.fmt = "xdatcar"
    /\ XdatcarErr(lines) # ""
    /\ Raise(XdatcarErr(lines))
    /\ UNCHANGED <<other_vars, lines, args, later, prev, i, frames, tmap, f0, f1, use,
                   all_types, total_hist, partial_hist, k, g_total, partial_rdf,
                   txt, fig>>

\* main() with --fmt of either kind
NextAnyFormat ==
    \/ ReadXdatcar
    \/ ReadXdatcarFail
    \/ Next

\* XDATCAR files: up to MaxKinds species of up to MaxPerKind atoms, with and
\* without the symbol line, MaxConfigs configurations at most, direct and
\* cartesian; atom j of configuration n stands at (j, n, 0)
MaxKinds == 3

MaxPerKind == 2

MaxConfigs == 2

KindNames == <<"Cu", "Se", "Al", "N", "Sc">>

Configuration(word, n, natoms) ==
    <<Hdr(word)>> \o [j \in 1..natoms |-> Data(<<j, n, 0>>)]

Xdatcar(symbols, counts, word, nconf, scale) ==
    <<Hdr("TEXT"), Data(<<scale>>), Data(<<Edge, 0, 0>>), Data(<<0, Edge, 0>>),
      Data(<<0, 0, Edge>>)>>
    \o (IF symbols THEN <<Symbols(SubSeq(KindNames, 1, Len(counts)))>> ELSE <<>>)
    \o <<Data(counts)>>
    \o Flatten([n \in 1..nconf |-> Configuration(word, n, SumSeq(counts))])

CountLines == UNION {[1..n -> 0..MaxPerKind] : n \in 1..MaxKinds}

XdatcarArgs == WithFmt(MkArgs(<<0, FracDen>>, 3, 2), "xdatcar")

\* the files above, and files that do not parse: no configuration line, a
\* configuration one line short, a symbol line without a count line
XdatcarInputs ==
    {Once(Xdatcar(sy, cn, w, 1, 1), XdatcarArgs) :
        sy \in BOOLEAN, cn \in CountLines, w \in {"Direct", "Cartesian"}}
    \cup {Once(Xdatcar(sy, <<1, 2>>, w, nc, sc), XdatcarArgs) :
            sy \in BOOLEAN, w \in {"Direct", "Cartesian"},
            nc \in 1..MaxConfigs, sc \in 1..2}
    \cup {Once(Xdatcar(TRUE, <<2>>, "Direct", 0, 1), XdatcarArgs),
          Once(CutAfter(Xdatcar(TRUE, <<1, 2>>, "Direct", 1, 1), 10), XdatcarArgs),
          Once(CutAfter(Xdatcar(TRUE, <<1, 2>>, "Direct", 1, 1), 6), XdatcarArgs)}

InitXdatcar == \E inp \in XdatcarInputs \cup CommonInputs : Start(inp)

SpecXdatcar == InitXdatcar /\ [][NextAnyFormat]_vars

\* the count line of the file, found as a reader of the format finds it: the
\* line before the first configuration line
CountLine ==
    LET first == CHOOSE j \in DOMAIN lines :
                     /\ OpensConfiguration(lines[j])
                     /\ \A j2 \in 1..(j - 1) : ~OpensConfiguration(lines[j2])
    IN  lines[first - 1].toks

\* C26: the single frame read_xdatcar returns for a count line (c1, ..., ck)
\* has c1 + ... + ck atoms, and atom a has the type j for which a lies in the
\* j-th run: after the first c1 + ... + c(j-1) atoms and within the next cj;
\* with a symbol line before the count line or without one.
C26_SpeciesExpansion ==
    (args.fmt = "xdatcar" /\ pc \notin {"read", "failed"}) =>
        /\ Len(frames) = 1
        /\ Len(frames[1].pos) = SumSeq(CountLine)
        /\ Len(frames[1].typ) = SumSeq(CountLine)
        /\ \A a \in DOMAIN frames[1].typ :
               LET j == frames[1].typ[a]
               IN  /\ j \in DOMAIN CountLine
                   /\ SumSeq(SubSeq(CountLine, 1, j - 1)) < a
                   /\ a <= SumSeq(SubSeq(CountLine, 1, j))

\* counts 2 0 1 under the symbols Cu Se Al: types 1 1 3
C26_Witness ==
    /\ args.fmt = "xdatcar"
    /\ pc = "done"
    /\ At(lines, 5).cols = <<"Cu", "Se", "Al">>
    /\ At(lines, 6).toks = <<2, 0, 1>>
    /\ Len(frames) = 1
    /\ frames[1].typ = <<1, 1, 3>>
    /\ Len(frames[1].pos) = 3

(***************************************************************************)
(* src/MD/PDOS.py, read_lammps_dump_velocities (lines 57-147).  The file   *)
(* is read line by line; i counts the lines read so far.  A frame of       *)
(* frames_vel is the sequence of its velocity rows.                        *)
(***************************************************************************)
\* header_parts.index(name): the first column of that name
ColFirst(cols, name) ==
    CHOOSE c \in 1..Len(cols) :
        cols[c] = name /\ \A c2 \in 1..(c - 1) : cols[c2] # name

\* f.readline() at end of file returns "", which starts with nothing
LineIs(ls, j, h) == j < Len(ls) /\ At(ls, j).hdr = h

\* lines 122-127: one atom row
VelRowErr(ls, j, cols) ==
    IF j >= Len(ls) THEN "IndexError"
    ELSE LET l == At(ls, j)
             FieldErr(name) ==
                 IF NParts(l) < ColFirst(cols, name) THEN "IndexError"
                 ELSE IF l.hdr # "" THEN "ValueError"
                 ELSE ""
             bad == {c \in 1..5 :
                       FieldErr(<<"id", "type", "vx", "vy", "vz">>[c]) # ""}
         IN  IF bad = {} THEN ""
             ELSE FieldErr(<<"id", "type", "vx", "vy", "vz">>[CHOOSE c \in bad : \A c2 \in bad : c <= c2])

RECURSIVE VelRowsErr(_, _, _, _, _)
VelRowsErr(ls, i0, natoms, cols, r) ==
    IF r >= natoms THEN ""
    ELSE IF VelRowErr(ls, i0 + 9 + r, cols) # "" THEN VelRowErr(ls, i0 + 9 + r, cols)
    ELSE VelRowsErr(ls, i0, natoms, cols, r + 1)

\* lines 87-127: the exception the parse of the block at line i0 raises
VelBlockErr(ls, i0) ==
    IF ~LineIs(ls, i0 + 2, "NUMBER") THEN "RuntimeError"
    ELSE IF i0 + 3 >= Len(ls) \/ ~IsIntLine(At(ls, i0 + 3)) THEN "ValueError"
    ELSE IF ~LineIs(ls, i0 + 4, "BOX") THEN "RuntimeError"
    ELSE IF ~LineIs(ls, i0 + 8, "ATOMS") THEN "RuntimeError"
    ELSE IF \E name \in {"id", "type", "vx", "vy", "vz"} :
                ~HasCol(At(ls, i0 + 8).cols, name) THEN "RuntimeError"
    ELSE IF At(ls, i0 + 3).toks[1] < 0 THEN "ValueError"
    ELSE VelRowsErr(ls, i0, At(ls, i0 + 3).toks[1], At(ls, i0 + 8).cols, 0)

\* lines 121-127: the ids and the velocities of the block, in file order
BlockIds(ls, i0) ==
    LET cols == At(ls, i0 + 8).cols
    IN  [r \in 1..At(ls, i0 + 3).toks[1] |->
            At(ls, i0 + 8 + r).toks[ColFirst(cols, "id")]]

BlockVels(ls, i0) ==
    LET cols == At(ls, i0 + 8).cols
    IN  [r \in 1..At(ls, i0 + 3).toks[1] |->
            <<At(ls, i0 + 8 + r).toks[ColFirst(cols, "vx")],
              At(ls, i0 + 8 + r).toks[ColFirst(cols, "vy")],
              At(ls, i0 + 8 + r).toks[ColFirst(cols, "vz")]>>]

\* (the rows left in file order)
FileOrder(ids) == {[r \in DOMAIN ids |-> r]}

\* line 130, np.argsort(ids): an index array that puts the ids in ascending
\* order; the order it gives to equal ids is not specified
ArgSorts(ids) ==
    {p \in [DOMAIN ids -> DOMAIN ids] :
        /\ \A a, b \in DOMAIN ids : p[a] = p[b] => a = b
        /\ \A a \in 1..(Len(ids) - 1) : ids[p[a]] <= ids[p[a + 1]]}

Take(xs, p) == [r \in DOMAIN p |-> xs[p[r]]]

PdosStart(inp) ==
    /\ lines = inp.lines
    /\ args = <<>>
    /\ pc = "pdos_read"
    /\ err = ""
    /\ i = 0
    /\ frames = <<>>
    /\ RdfIdle /\ SubIdle /\ LeoIdle /\ PdosIdle /\ SplitIdle

\* lines 75-79: a line that opens no block
PdosScan ==
    /\ pc = "pdos_read"
    /\ i < Len(lines)
    /\ At(lines, i).hdr # "TIMESTEP"
    /\ i' = i + 1
    /\ UNCHANGED <<lines, args, pc, err, frames, rdf_vars, other_vars>>

\* lines 76-77 and 82-84: the file has ended, or ends on a TIMESTEP header
PdosEof ==
    /\ pc = "pdos_read"
    /\ \/ i >= Len(lines)
       \/ i + 1 = Len(lines) /\ At(lines, i).hdr = "TIMESTEP"
    /\ pc' = "pdos_stack"
    /\ UNCHANGED <<lines, args, err, i, frames, rdf_vars, other_vars>>

\* lines 87-127: the block does not parse
PdosParseFail ==
    /\ pc = "pdos_read"
    /\ i + 1 < Len(lines)
    /\ At(lines, i).hdr = "TIMESTEP"
    /\ VelBlockErr(lines, i) # ""
    /\ Raise(VelBlockErr(lines, i))
    /\ UNCHANGED <<lines, args, i, frames, rdf_vars, other_vars>>

\* lines 138-141: the sorted ids are not those of the first frame
PdosIdsDiffer ==
    /\ pc = "pdos_read"
    /\ i + 1 < Len(lines)
    /\ At(lines, i).hdr = "TIMESTEP"
    /\ VelBlockErr(lines, i) = ""
    /\ frames_vel # <<>>
    /\ \E sort_idx \in ArgSorts(BlockIds(lines, i)) :
           Take(BlockIds(lines, i), sort_idx) # ids_ref
    /\ Raise("RuntimeError")
    /\ UNCHANGED <<lines, args, i, frames, rdf_vars, other_vars>>

\* lines 82-143: one frame read, sorted by id and appended
PdosBlock ==
    /\ pc = "pdos_read"
    /\ i + 1 < Len(lines)
    /\ At(lines, i).hdr = "TIMESTEP"
    /\ VelBlockErr(lines, i) = ""
    /\ \E sort_idx \in ArgSorts(BlockIds(lines, i)) :
           LET ids_sorted == Take(BlockIds(lines, i), sort_idx)
           IN  /\ frames_vel # <<>> => ids_sorted = ids_ref
               /\ ids_ref' = IF frames_vel = <<>> THEN ids_sorted ELSE ids_ref
               /\ frames_vel' = Append(frames_vel, Take(BlockVels(lines, i), sort_idx))
    /\ i' = i + 9 + At(lines, i + 3).toks[1]
    /\ UNCHANGED <<lines, args, pc, err, frames, rdf_vars, sub_vars, leo_vars,
                   split_vars>>

\* line 145: np.stack of no frame raises
PdosStackFail ==
    /\ pc = "pdos_stack"
    /\ frames_vel = <<>>
    /\ Raise("ValueError")
    /\ UNCHANGED <<lines, args, i, frames, rdf_vars, other_vars>>

\* lines 145-147
PdosReturn ==
    /\ pc = "pdos_stack"
    /\ frames_vel # <<>>
    /\ pc' = "pdos_done"
    /\ UNCHANGED <<lines, args, err, i, frames, rdf_vars, other_vars>>

NextPdos ==
    \/ PdosScan
    \/ PdosEof
    \/ PdosParseFail
    \/ PdosIdsDiffer
    \/ PdosBlock
    \/ PdosStackFail
    \/ PdosReturn

\* velocity dumps of up to MaxVelFrames frames of up to MaxVelAtoms atoms with
\* ids 1..MaxId in any order, an id twice included; the row r of frame n has
\* the velocity (10 n + r, 0, 0), so that no two rows of a file are alike.
MaxVelFrames == 3

MaxVelAtoms == 2

MaxId == 3

VelCols == <<"id", "type", "vx", "vy", "vz">>

VelBlock(n, ids) ==
    MkBlock(n, CubicBox(0, Edge), VelCols,
            [r \in DOMAIN ids |-> <<ids[r], 1, 10 * n + r, 0, 0>>])

IdLists == UNION {[1..n -> 1..MaxId] : n \in 1..MaxVelAtoms}

\* the blocks of a file numbered by their place
Numbered(f) ==
    Flatten([n \in DOMAIN f |-> VelBlock(n, f[n])])

\* files of one and two frames of any ids, and longer files whose frames hold
\* the ids 1 and 2 in either order or the id 1 alone
VelInputs ==
    {[lines |-> Numbered(f)] : f \in UNION {[1..n -> IdLists] : n \in 1..2}}
    \cup {[lines |-> Numbered(f)] :
            f \in UNION {[1..n -> {<<1, 2>>, <<2, 1>>, <<1>>}] : n \in 3..MaxVelFrames}}
    \cup {[lines |-> <<>>],
          [lines |-> <<Hdr("TEXT")>> \o VelBlock(1, <<2, 1>>) \o <<Hdr("TIMESTEP")>>],
          [lines |-> VelBlock(1, <<2, 1>>) \o CutAfter(VelBlock(2, <<2, 1>>), 10)],
          [lines |-> MkBlock(1, CubicBox(0, Edge), StdCols, << <<1, 1, 0, 0, 0>> >>)],
          [lines |-> MkBlock(1, CubicBox(0, Edge), <<"vz", "vy", "vx", "type", "id">>,
                             << <<5, 6, 7, 1, 2>>, <<8, 9, 10, 1, 1>> >>)]}

InitPdos == \E inp \in VelInputs : PdosStart(inp)

SpecPdos == InitPdos /\ [][NextPdos]_vars

IsAscending(xs) == \A a \in 1..(Len(xs) - 1) : xs[a] <= xs[a + 1]

\* the rows of the block at line i0 as <<id, velocity>>
IdVelRows(i0) ==
    [r \in DOMAIN BlockIds(lines, i0) |->
        <<BlockIds(lines, i0)[r], BlockVels(lines, i0)[r]>>]

\* C27: every frame kept has its rows in ascending order of id: row k of
\* frame n is a row of the n-th block of the file, each row of the block is
\* taken once, and the id of row k is ids_ref[k], the k-th smallest id of the
\* first frame, in every frame.  A block whose ids are not those of ids_ref
\* ends the read with an error at that block: it is not appended and no later
\* block is read.
C27_FramesAlignedById ==
    /\ [](pc \in {"pdos_read", "pdos_stack", "pdos_done"} =>
            /\ IsAscending(ids_ref)
            /\ \A n \in DOMAIN frames_vel :
                   LET rows == IdVelRows(NthTimestep(lines, n, 0))
                   IN  /\ Len(frames_vel[n]) = Len(ids_ref)
                       /\ Len(rows) = Len(ids_ref)
                       /\ \E p \in [DOMAIN rows -> DOMAIN rows] :
                              /\ \A a, b \in DOMAIN rows : p[a] = p[b] => a = b
                              /\ \A q \in DOMAIN rows :
                                     rows[p[q]] = <<ids_ref[q], frames_vel[n][q]>>)
    /\ [][(/\ pc = "pdos_read"
           /\ i + 1 < Len(lines)
           /\ At(lines, i).hdr = "TIMESTEP"
           /\ VelBlockErr(lines, i) = ""
           /\ frames_vel # <<>>
           /\ \E v \in Range(ids_ref) \cup Range(BlockIds(lines, i)) :
                  Occurrences(BlockIds(lines, i), v) # Occurrences(ids_ref, v))
          => (pc' = "failed" /\ err' = "RuntimeError" /\ frames_vel' = frames_vel)]_vars

C27_Witness ==
    /\ pc = "pdos_done"
    /\ Len(lines) = 22
    /\ BlockIds(lines, 0) = <<3, 1>>
    /\ BlockIds(lines, 11) = <<1, 3>>
    /\ ids_ref = <<1, 3>>
    /\ frames_vel = << << <<12, 0, 0>>, <<11, 0, 0>> >>,
                       << <<21, 0, 0>>, <<22, 0, 0>> >> >>

(***************************************************************************)
(* Windows of two frames of three atoms on the three sites, every atom of  *)
(* any of three types: the second frame may hold types the first lacks     *)
(***************************************************************************)
TotalTypes == TypeSet \cup {Cardinality(TypeSet) + 1}

TotalBlocks ==
    {MkBlock(0, CubicBox(0, Edge), StdCols,
             RowsOf([r \in DOMAIN Sites |-> <<t[r], Sites[r]>>])) :
        t \in [DOMAIN Sites -> TotalTypes]}

TotalInputs == {Once(b1 \o b2, MkArgs(<<0, FracDen>>, 3, 3)) : b1, b2 \in TotalBlocks}

InitTotal == \E inp \in TotalInputs \cup CommonInputs : Start(inp)

SpecTotal == InitTotal /\ [][Next]_vars

\* the atoms of a frame whose type the first frame of the window lacks
AbsentTypeAtoms(fr) == {a \in DOMAIN fr.typ : fr.typ[a] \notin Range(all_types)}

\* the ordered pairs with such an atom at either end
StrayPairs(fr) ==
    {pr \in AllPairs(fr) : pr[1] \in AbsentTypeAtoms(fr) \/ pr[2] \in AbsentTypeAtoms(fr)}

\* their count in bin b over the first m frames of the window
RECURSIVE SumStray(_, _)
SumStray(m, b) ==
    IF m = 0 THEN 0
    ELSE SumStray(m - 1, b)
         + Histogram(use[m], StrayPairs(use[m]), args.cutoff, args.bins)[b]

\* bin b of the same-type histograms plus twice bin b of the cross-type ones
RECURSIVE WeightedPartials(_, _)
WeightedPartials(keys, b) ==
    IF keys = <<>> THEN Rat(0, 1)
    ELSE LET key == Head(keys)
             w == IF key[1] = key[2] THEN 1 ELSE 2
         IN  RatPlus(RatMul(Rat(w, 1), partial_hist[key][b]),
                     WeightedPartials(Tail(keys), b))

EveryTypePresent == \A m \in 1..k : AbsentTypeAtoms(use[m]) = {}

\* C28: once frames of the window are accumulated, every bin of the total
\* histogram is the sum of the same-type histograms plus twice the sum of the
\* cross-type histograms, plus the ordered pairs that involve an atom whose type
\* the first window frame lacks; with no such atom the last term is zero, so
\* the total and the same-type histograms count ordered pairs and the
\* cross-type histograms count each pair once.
C28_TotalVersusPartial ==
    Accumulating =>
        \A b \in DOMAIN total_hist :
            /\ total_hist[b] =
                  RatPlus(WeightedPartials(SeqOfSet(DOMAIN partial_hist), b),
                          Rat(SumStray(k, b), Divisor))
            /\ EveryTypePresent =>
                  total_hist[b] = WeightedPartials(SeqOfSet(DOMAIN partial_hist), b)

\* two frames accumulated, every type present, with a same-type and a
\* cross-type histogram holding counts
C28_Witness ==
    /\ pc = "averaged"
    /\ k = 2
    /\ EveryTypePresent
    /\ \E key \in DOMAIN partial_hist : \E b \in DOMAIN total_hist :
          key[1] = key[2] /\ partial_hist[key][b][1] > 0
    /\ \E key \in DOMAIN partial_hist : \E b \in DOMAIN total_hist :
          key[1] # key[2] /\ partial_hist[key][b][1] > 0

(***************************************************************************)
(* src/Universal/LAMMPS2EXYZ.py, read_lammps_dump (lines 67-179).  The     *)
(* whole file is held in lines; i is the index of the line the loop is at. *)
(* The index can run backwards, and Python then counts a negative index    *)
(* from the end of the list.                                               *)
(***************************************************************************)
\* lines[j] raises no IndexError
InFile(ls, j) == -Len(ls) <= j /\ j < Len(ls)

\* lines[j], a negative j counted from the end
PyAt(ls, j) == IF j >= 0 THEN ls[j + 1] ELSE ls[Len(ls) + j + 1]

\* the place a slice bound stands for
PyBound(ls, j) == IF j < 0 THEN Max(j + Len(ls), 0) ELSE Min(j, Len(ls))

\* lines[a:b], either bound of either sign
PySliceAny(ls, a, b) == SubSeq(ls, PyBound(ls, a) + 1, PyBound(ls, b))

\* lines 25-42, _parse_box_line(lines[j])
ParseBoxErr(ls, j) ==
    IF j >= Len(ls) THEN "IndexError"
    ELSE IF NParts(PyAt(ls, j)) \notin {2, 3} THEN "RuntimeError"
    ELSE IF PyAt(ls, j).hdr # "" THEN "ValueError"
    ELSE ""

\* lines 45-64, _choose_coord_columns: the first triple the header holds whole
\* (<<>> when it raises)
choose_coord_columns(header) ==
    IF HasCol(header, "x") /\ HasCol(header, "y") /\ HasCol(header, "z")
    THEN <<"x", "y", "z">>
    ELSE IF HasCol(header, "xs") /\ HasCol(header, "ys") /\ HasCol(header, "zs")
    THEN <<"xs", "ys", "zs">>
    ELSE IF HasCol(header, "xu") /\ HasCol(header, "yu") /\ HasCol(header, "zu")
    THEN <<"xu", "yu", "zu">>
    ELSE <<>>

\* line 148: rows = lines[i:i + nat], for the block opened at line i0
DumpRows(ls, i0) ==
    PySliceAny(ls, i0 + 9, i0 + 9 + PyAt(ls, i0 + 3).toks[1])

\* lines 159-167: the exception one row raises
DumpRowErr(l, cols) ==
    LET names == <<"id", "type">> \o choose_coord_columns(cols)
        FieldErr(c) ==
            IF NParts(l) < Col(cols, names[c]) THEN "IndexError"
            ELSE IF l.hdr # "" THEN "ValueError"
            ELSE ""
        bad == {c \in DOMAIN names : FieldErr(c) # ""}
    IN  IF bad = {} THEN ""
        ELSE FieldErr(CHOOSE c \in bad : \A c2 \in bad : c <= c2)

RECURSIVE DumpRowsErr(_, _)
DumpRowsErr(rows, cols) ==
    IF rows = <<>> THEN ""
    ELSE IF DumpRowErr(Head(rows), cols) # "" THEN DumpRowErr(Head(rows), cols)
    ELSE DumpRowsErr(Tail(rows), cols)

\* lines 98-167: the exception the block opened at line i0 raises ("" when it
\* raises none); lines[i0] is the TIMESTEP header and i0 + 1 < len(lines)
DumpBlockErr(ls, i0) ==
    IF ~IsIntLine(PyAt(ls, i0 + 1)) THEN "ValueError"
    ELSE IF i0 + 2 >= Len(ls) \/ PyAt(ls, i0 + 2).hdr # "NUMBER" THEN "RuntimeError"
    ELSE IF i0 + 3 >= Len(ls) THEN "IndexError"
    ELSE IF ~IsIntLine(PyAt(ls, i0 + 3)) THEN "ValueError"
    ELSE IF i0 + 4 >= Len(ls) \/ PyAt(ls, i0 + 4).hdr # "BOX" THEN "RuntimeError"
    ELSE IF ParseBoxErr(ls, i0 + 5) # "" THEN ParseBoxErr(ls, i0 + 5)
    ELSE IF ParseBoxErr(ls, i0 + 6) # "" THEN ParseBoxErr(ls, i0 + 6)
    ELSE IF ParseBoxErr(ls, i0 + 7) # "" THEN ParseBoxErr(ls, i0 + 7)
    ELSE IF i0 + 8 >= Len(ls) \/ PyAt(ls, i0 + 8).hdr # "ATOMS" THEN "RuntimeError"
    ELSE IF ~HasCol(PyAt(ls, i0 + 8).cols, "id") \/ ~HasCol(PyAt(ls, i0 + 8).cols, "type")
    THEN "RuntimeError"
    ELSE IF choose_coord_columns(PyAt(ls, i0 + 8).cols) = <<>> THEN "RuntimeError"
    ELSE IF Len(DumpRows(ls, i0)) < PyAt(ls, i0 + 3).toks[1] THEN "RuntimeError"
    ELSE DumpRowsErr(DumpRows(ls, i0), PyAt(ls, i0 + 8).cols)

\* lo hi -> tilt 0; lo hi tilt
BoxTilt(l) == IF Len(l.toks) = 3 THEN l.toks[3] ELSE 0

\* lines 120-128
DumpLattice(ls, i0) ==
    << <<BoxLength(PyAt(ls, i0 + 5)), 0, 0>>,
       <<BoxTilt(PyAt(ls, i0 + 5)), BoxLength(PyAt(ls, i0 + 6)), 0>>,
       <<BoxTilt(PyAt(ls, i0 + 6)), BoxTilt(PyAt(ls, i0 + 7)), BoxLength(PyAt(ls, i0 + 7))>> >>

DumpIds(ls, i0) ==
    [r \in DOMAIN DumpRows(ls, i0) |->
        DumpRows(ls, i0)[r].toks[Col(PyAt(ls, i0 + 8).cols, "id")]]

\* lines 155-177: (timestep, lattice, types[idx], pos[idx])
DumpFrame(ls, i0, idx) ==
    LET cols == PyAt(ls, i0 + 8).cols
        c == choose_coord_columns(cols)
        rows == DumpRows(ls, i0)
    IN  [timestep |-> PyAt(ls, i0 + 1).toks[1],
         lattice  |-> DumpLattice(ls, i0),
         types    |-> Take([r \in DOMAIN rows |-> rows[r].toks[Col(cols, "type")]], idx),
         pos      |-> Take([r \in DOMAIN rows |->
                               <<rows[r].toks[Col(cols, c[1])],
                                 rows[r].toks[Col(cols, c[2])],
                                 rows[r].toks[Col(cols, c[3])]>>], idx)]

\* the frames kept in memory, above which the model follows the loop no further
MaxDumpFrames == 4

DumpStart(inp) ==
    /\ lines = inp.lines
    /\ args = <<>>
    /\ pc = "l2e_read"
    /\ err = ""
    /\ i = 0
    /\ frames = <<>>
    /\ RdfIdle /\ SubIdle /\ LeoIdle /\ PdosIdle /\ SplitIdle

\* lines 91-93: a line that opens no block
DumpScan ==
    /\ pc = "l2e_read"
    /\ i < Len(lines)
    /\ InFile(lines, i)
    /\ PyAt(lines, i).hdr # "TIMESTEP"
    /\ i' = i + 1
    /\ UNCHANGED <<lines, args, pc, err, frames, rdf_vars, other_vars>>

\* lines 89 and 95-97: the loop ends, or the file ends on a TIMESTEP header
DumpReturn ==
    /\ pc = "l2e_read"
    /\ \/ i >= Len(lines)
       \/ i + 1 = Len(lines) /\ PyAt(lines, i).hdr = "TIMESTEP"
    /\ pc' = "l2e_done"
    /\ UNCHANGED <<lines, args, err, i, frames, rdf_vars, other_vars>>

\* line 91: the index has run off the front of the list
DumpIndexFail ==
    /\ pc = "l2e_read"
    /\ i < -Len(lines)
    /\ Raise("IndexError")
    /\ UNCHANGED <<lines, args, i, frames, rdf_vars, other_vars>>

\* lines 98-167: the block does not parse
DumpFail ==
    /\ pc = "l2e_read"
    /\ i + 1 < Len(lines)
    /\ InFile(lines, i)
    /\ PyAt(lines, i).hdr = "TIMESTEP"
    /\ DumpBlockErr(lines, i) # ""
    /\ Raise(DumpBlockErr(lines, i))
    /\ UNCHANGED <<lines, args, i, frames, rdf_vars, other_vars>>

\* lines 95-177: one block read and its frame appended; i moves by the nine
\* header lines and by nat
DumpBlock ==
    /\ pc = "l2e_read"
    /\ i + 1 < Len(lines)
    /\ InFile(lines, i)
    /\ PyAt(lines, i).hdr = "TIMESTEP"
    /\ DumpBlockErr(lines, i) = ""
    /\ Len(frames) < MaxDumpFrames
    /\ \E idx \in ArgSorts(DumpIds(lines, i)) :
           frames' = Append(frames, DumpFrame(lines, i, idx))
    /\ i' = i + 9 + PyAt(lines, i + 3).toks[1]
    /\ UNCHANGED <<lines, args, pc, err, rdf_vars, other_vars>>

NextDump ==
    \/ DumpScan
    \/ DumpReturn
    \/ DumpIndexFail
    \/ DumpFail
    \/ DumpBlock

\* dumps of one and two blocks whose atom-count line says any number from
\* -MaxBack to MaxDumpAtoms, or one far below, while 0 to MaxDumpAtoms rows
\* follow; a dump with a tilted box, one with scaled coordinates, one with a
\* leading text line and a trailing TIMESTEP header
MaxBack == 10

MaxDumpAtoms == 2

DumpBlockOf(step, nat, nrows) ==
    ReplaceLine(MkBlock(step, CubicBox(0, Edge), StdCols,
                        [r \in 1..nrows |-> <<nrows + 1 - r, 1, r, step, 0>>]),
                4, Data(<<nat>>))

DumpBlocks(step) ==
    {DumpBlockOf(step, nat, nrows) :
        nat \in ((-MaxBack)..MaxDumpAtoms) \cup {-(3 * MaxBack)},
        nrows \in 0..MaxDumpAtoms}

DumpInputs ==
    {[lines |-> b1] : b1 \in DumpBlocks(1)}
    \cup {[lines |-> b1 \o b2] : b1 \in DumpBlocks(1), b2 \in DumpBlocks(2)}
    \cup {[lines |-> <<>>],
          [lines |-> <<Hdr("TEXT")>> \o DumpBlockOf(1, 2, 2) \o <<Hdr("TIMESTEP")>>],
          [lines |-> MkBlock(1, <<<<0, 4, 1>>, <<0, 4, 2>>, <<0, 4, 3>>>>, StdCols,
                             << <<1, 1, 0, 0, 0>> >>)],
          [lines |-> MkBlock(1, CubicBox(0, Edge), <<"type", "id", "xs", "ys", "zs">>,
                             << <<1, 2, 0, 0, 0>>, <<2, 1, 1, 1, 1>> >>)]}

InitDump == \E inp \in DumpInputs : DumpStart(inp)

SpecDump == InitDump /\ [][NextDump]_vars

\* C29: the line index of read_lammps_dump strictly increases from one loop
\* iteration to the next, whatever the atom-count lines say (so that the loop
\* ends on every file).
C29_LineIndexIncreases ==
    [][(pc = "l2e_read" /\ pc' = "l2e_read") => i' > i]_vars

\* a block whose atom-count line is zero or -1 .. -8 moves the index forward
\* by 9 + nat lines, and a frame of no atom is appended
ShortStepsAdvance ==
    [][(/\ pc = "l2e_read" /\ pc' = "l2e_read"
        /\ i >= 0
        /\ i + 3 < Len(lines)
        /\ PyAt(lines, i).hdr = "TIMESTEP"
        /\ IsIntLine(PyAt(lines, i + 3))
        /\ PyAt(lines, i + 3).toks[1] > -9)
       => i' > i]_vars

\* the loop is back at the line it started the iteration at, one frame more
\* in memory: the iteration repeats without end
LoopRepeats ==
    /\ pc = "l2e_read"
    /\ i = 0
    /\ Len(frames) = MaxDumpFrames
    /\ PyAt(lines, 3).toks = <<-9>>

(***************************************************************************)
(* src/NEP/Exyz-random-select.py (the whole script).  A line of the xyz    *)
(* file is a record with nl, whether it ends with a newline: readlines()   *)
(* keeps the newline and writelines() adds none.  train_ratio is a double, *)
(* and len(frames) * train_ratio is taken in double arithmetic.            *)
(***************************************************************************)
\* (the whole part of the exact product n * p / q)
ExactFloor(n, p, q) == (n * p) \div q

\* line 62: int(len(frames) * train_ratio)
NumTrain(n, ratio) == IntOfProduct(ratio[1], ratio[2], n)

\* the strings of the frames one after the other
RECURSIVE Concat(_)
Concat(fs) ==
    IF Len(fs) = 0 THEN <<>>
    ELSE IF Len(fs) = 1 THEN fs[1]
    ELSE Concat(SubSeq(fs, 1, Len(fs) \div 2))
         \o Concat(SubSeq(fs, Len(fs) \div 2 + 1, Len(fs)))

Swap(xs, a, b) == [xs EXCEPT ![a] = xs[b], ![b] = xs[a]]

SplitStart(inp) ==
    /\ lines = inp.lines
    /\ args = [ratio |-> inp.ratio]
    /\ xyz_frames = inp.frames
    /\ pc = "split_args"
    /\ err = ""
    /\ i = 0
    /\ frames = <<>>
    /\ train_frames = <<>>
    /\ test_frames = <<>>
    /\ train_xyz = <<>>
    /\ test_xyz = <<>>
    /\ shuffle_i = 0
    /\ RdfIdle /\ SubIdle /\ LeoIdle /\ PdosIdle

\* lines 23-28: the ratio is not inside (0, 1)
SplitUsage ==
    /\ pc = "split_args"
    /\ ~(0 < args.ratio[1] /\ args.ratio[1] < args.ratio[2])
    /\ Raise("SystemExit")
    /\ UNCHANGED <<lines, args, i, frames, rdf_vars, other_vars>>

\* lines 23-42
SplitOpen ==
    /\ pc = "split_args"
    /\ 0 < args.ratio[1] /\ args.ratio[1] < args.ratio[2]
    /\ pc' = "split_read"
    /\ UNCHANGED <<lines, args, err, i, frames, rdf_vars, other_vars>>

\* lines 43-52: one frame of 2 + n_atoms lines
SplitReadFrame ==
    /\ pc = "split_read"
    /\ i < Len(lines)
    /\ IsIntLine(At(lines, i))
    /\ frames' = Append(frames, PySliceAny(lines, i, i + 2 + At(lines, i).toks[1]))
    /\ i' = i + 2 + At(lines, i).toks[1]
    /\ UNCHANGED <<lines, args, pc, err, rdf_vars, other_vars>>

\* lines 44-48: the line is no atom count
SplitReadFail ==
    /\ pc = "split_read"
    /\ i < Len(lines)
    /\ ~IsIntLine(At(lines, i))
    /\ Raise("SystemExit")
    /\ UNCHANGED <<lines, args, i, frames, rdf_vars, other_vars>>

\* lines 43 and 57: the file is read; random.shuffle starts at the last index
SplitShuffle ==
    /\ pc = "split_read"
    /\ i >= Len(lines)
    /\ pc' = "split_shuffle"
    /\ shuffle_i' = Len(frames) - 1
    /\ UNCHANGED <<lines, args, err, i, frames, rdf_vars, sub_vars, leo_vars, pdos_vars,
                   train_frames, test_frames, train_xyz, test_xyz, xyz_frames>>

\* line 57, random.shuffle: for i from len - 1 down to 1, x[i] changes place
\* with x[j], j any index up to i
SplitSwap ==
    /\ pc = "split_shuffle"
    /\ shuffle_i >= 1
    /\ \E j \in 0..shuffle_i : frames' = Swap(frames, shuffle_i + 1, j + 1)
    /\ shuffle_i' = shuffle_i - 1
    /\ UNCHANGED <<lines, args, pc, err, i, rdf_vars, sub_vars, leo_vars, pdos_vars,
                   train_frames, test_frames, train_xyz, test_xyz, xyz_frames>>

\* lines 62-64
SplitCut ==
    /\ pc = "split_shuffle"
    /\ shuffle_i < 1
    /\ LET num_train == NumTrain(Len(frames), args.ratio)
       IN  /\ train_frames' = PySlice(frames, 0, num_train)
           /\ test_frames' = PySlice(frames, num_train, Len(frames))
    /\ pc' = "split_write"
    /\ UNCHANGED <<lines, args, err, i, frames, rdf_vars, sub_vars, leo_vars, pdos_vars,
                   train_xyz, test_xyz, shuffle_i, xyz_frames>>

\* lines 69-75
SplitWrite ==
    /\ pc = "split_write"
    /\ train_xyz' = Concat(train_frames)
    /\ test_xyz' = Concat(test_frames)
    /\ pc' = "split_done"
    /\ UNCHANGED <<lines, args, err, i, frames, rdf_vars, sub_vars, leo_vars, pdos_vars,
                   train_frames, test_frames, shuffle_i, xyz_frames>>

NextSplit ==
    \/ SplitUsage
    \/ SplitOpen
    \/ SplitReadFrame
    \/ SplitReadFail
    \/ SplitShuffle
    \/ SplitSwap
    \/ SplitCut
    \/ SplitWrite

\* xyz files of up to MaxSplitFrames frames of up to MaxSplitAtoms atoms, no
\* two frames alike, with and without the newline of the last line, under
\* every ratio of tenths; a file of LongFrames frames, all but the first
\* alike; a file that starts with text; ratios outside (0, 1)
MaxSplitFrames == 3

MaxSplitAtoms == 1

LongFrames == 50

XyzLine(h, toks) == [hdr |-> h, cols |-> <<>>, toks |-> toks, nl |-> TRUE]

XyzFrame(f, n) ==
    <<XyzLine("", <<n>>), XyzLine("COMMENT", <<f>>)>>
    \o [r \in 1..n |-> XyzLine("", <<f, r, 0, 0>>)]

NoFinalNewline(fs) ==
    [fs EXCEPT ![Len(fs)] = [fs[Len(fs)] EXCEPT ![Len(fs[Len(fs)])].nl = FALSE]]

Tenths == {<<p, 10>> : p \in 1..9}

XyzSources ==
    UNION {{[f \in 1..n |-> XyzFrame(f, c[f])] : c \in [1..n -> 0..MaxSplitAtoms]} :
           n \in 1..MaxSplitFrames}

LongSource == [f \in 1..LongFrames |-> XyzFrame(IF f = 1 THEN 1 ELSE 2, 1)]

XyzInput(fs, ratio) == [lines |-> Concat(fs), frames |-> fs, ratio |-> ratio]

SplitInputs ==
    {XyzInput(fs, r) : fs \in XyzSources, r \in Tenths}
    \cup {XyzInput(NoFinalNewline(fs), r) : fs \in XyzSources, r \in Tenths}
    \cup {XyzInput(LongSource, r) : r \in {<<5, 10>>, <<58, 100>>}}
    \cup {XyzInput(<<XyzFrame(1, 1)>>, r) : r \in {<<0, 10>>, <<10, 10>>}}
    \cup {[lines |-> <<XyzLine("TEXT", <<>>)>> \o XyzFrame(1, 1), frames |-> <<>>,
           ratio |-> <<5, 10>>],
          [lines |-> <<>>, frames |-> <<>>, ratio |-> <<5, 10>>]}

InitSplit == \E inp \in SplitInputs : SplitStart(inp)

SpecSplit == InitSplit /\ [][NextSplit]_vars

\* the file is the frames of xyz_frames one after the other, each with as many
\* atom lines as its first line says
WellFormedXyz ==
    /\ xyz_frames # <<>>
    /\ lines = Concat(xyz_frames)
    /\ \A f \in DOMAIN xyz_frames :
          /\ Len(xyz_frames[f]) >= 2
          /\ IsIntLine(xyz_frames[f][1])
          /\ Len(xyz_frames[f]) = 2 + xyz_frames[f][1].toks[1]

EndsWithNewline == \A j \in DOMAIN lines : lines[j].nl

\* every frame of the input is in the train or the test list as often as the
\* input holds it, and each file holds the lines of its frames, frame by frame
EveryFrameOnce ==
    /\ Len(train_frames) + Len(test_frames) = Len(xyz_frames)
    /\ \A f \in DOMAIN xyz_frames :
          Occurrences(train_frames \o test_frames, xyz_frames[f])
              = Occurrences(xyz_frames, xyz_frames[f])
    /\ train_xyz = Concat(train_frames)
    /\ test_xyz = Concat(test_frames)

\* no string written runs into the next one
LinesApart(out) == \A j \in 1..(Len(out) - 1) : out[j].nl

\* C30: for a well-formed xyz file of N frames and a ratio r in (0, 1), every
\* input frame is written to exactly one of the train and test files, its
\* lines together and unchanged, and the train file receives exactly
\* floor(N * r) frames.
C30_SplitIsPartition ==
    (pc = "split_done" /\ WellFormedXyz /\ EndsWithNewline) =>
        /\ EveryFrameOnce
        /\ LinesApart(train_xyz) /\ LinesApart(test_xyz)
        /\ Len(train_frames) = ExactFloor(Len(xyz_frames), args.ratio[1], args.ratio[2])

\* what holds of every well-formed file: the frames are split without loss,
\* and the train file receives floor(N * r) frames or one fewer
SplitKeepsFrames ==
    (pc = "split_done" /\ WellFormedXyz) =>
        /\ EveryFrameOnce
        /\ Len(train_frames) \in
              {ExactFloor(Len(xyz_frames), args.ratio[1], args.ratio[2]) - 1,
               ExactFloor(Len(xyz_frames), args.ratio[1], args.ratio[2])}

\* 50 frames at ratio 0.58: 28 frames in the train file, floor(50 * 0.58) = 29
OneFrameShort ==
    /\ pc = "split_done"
    /\ WellFormedXyz /\ EndsWithNewline
    /\ Len(xyz_frames) = LongFrames
    /\ args.ratio = <<58, 100>>
    /\ Len(train_frames) = 28

\* a file whose last line has no newline: that line is written in front of
\* another frame and runs into its atom-count line
LastLineJoined ==
    /\ pc = "split_done"
    /\ WellFormedXyz
    /\ ~LinesApart(train_xyz)

====
